---- MODULE Spec2Model ----
(***************************************************************************)
(* Verification model of vaul: the ToolCall execution policy and retry     *)
(* controller (vaul/decorators.py), the persistent MCP session pool        *)
(* registry and the tools loaded through it (vaul/mcp.py), and the Toolkit *)
(* (vaul/registry.py).                                                     *)
(*                                                                         *)
(* Time is counted in tenths of a second: the retry loop's base delay 0.1  *)
(* is 1, max_timeout=1 is 10, max_backoff=0.5 is 5, the default            *)
(* max_timeout of 60 s is 600 and the default max_backoff of 120 s is 1200.*)
(***************************************************************************)
EXTENDS Integers, Sequences, FiniteSets, TLC

\* ---------------------------------------------------------------- bounds
\* Handler invocations followed within one call.
MaxAttempts == 12
\* Longest time one handler invocation takes (tenths of a second).
MaxLatency == 1
\* Caller threads using the pool registry.
NumThreads == 2
\* _PersistentSSEPool objects constructed in one run.
MaxEntries == 2
\* Calls dispatched together on one tool.
NumCalls == 3
\* What one handler invocation takes when nothing holds it up (tenths).
HandlerLatency == 2
\* Handler invocations followed per tool of a Toolkit.
MaxRuns == 2
\* Threads sharing one Toolkit.
NumRacers == 2
\* async_run calls of one retrying tool gathered on one loop.
NumRetriers == 2
\* How far the clock of the gathered calls is followed (tenths).
MaxClock == 7
\* Handler invocations whose outcome is chosen one by one.
PatternLen == 3

\* ------------------------------------------------------ program constants
\* min(0.1 * (2 ** attempt), ...): the 0.1, in tenths of a second.
BaseDelay == 1
\* max_timeout if max_timeout is not None else 60
DefaultMaxTimeout == 600
\* max_backoff if max_backoff is not None else 120
DefaultMaxBackoff == 1200
\* Python's None for the Optional[int] arguments max_timeout / max_backoff.
NoneArg == -1

\* ------------------------------------------------------------ input sets
\* The handler is a plain function or a coroutine function.
HandlerKinds == {"Blocking", "NonBlocking"}
\* max_timeout arguments: None, 0 s, 1 s.
TimeoutArgs == {NoneArg, 0, 10}
\* max_backoff arguments: None, 0 s, 0.5 s.
BackoffArgs == {NoneArg, 0, 5}
\* Exceptions (subclasses of Exception) a handler may raise.
NoErr == [type |-> "", msg |-> ""]
Errors == {[type |-> "ConnectionError", msg |-> "boom"],
           [type |-> "ValueError", msg |-> "bad"]}
\* Values a handler may return; one is falsy, one reads like an error text.
Values == {"ok", "", "boom"}
\* What run() hands back for a coroutine function: the un-awaited coroutine.
CoroutineObject == "<coroutine object>"
CallModes == {"run", "async_run", "call"}
\* Endpoints and header sets handed to _get_pool.
Urls == {"u1", "u2"}
HeaderSets == {"h1", "h2"}
Threads == 1..NumThreads
Entries == 1..MaxEntries
\* dict.get / dict.pop default None, and a lock nobody holds.
NoEntry == 0
NoThread == 0
\* Tasks on a pool entry's private loop: _open, and one per caller thread.
OpenTask == 0
Tasks == {OpenTask} \cup Threads
\* An asyncio.Lock nobody holds.
NoTask == -1
\* The calls of one dispatch, in dispatch order.
Calls == 1..NumCalls
Racers == 1..NumRacers
Retriers == 1..NumRetriers
\* The limits the gathered calls' tool is made with (tenths); NoConfig
\* before the decorator has run.
NoConfig == [max_timeout |-> NoneArg, max_backoff |-> NoneArg]
GatherConfigs ==
    {[max_timeout |-> 4, max_backoff |-> 2], [max_timeout |-> 6, max_backoff |-> 3]}
\* The callers: tasks gathered on one event loop that await async_run, or
\* threads that each call run.
DispatchModes == {"gather", "threads"}
\* The operations on a constructed _PersistentSSEPool.
SessionOps == {"call_tool", "list_tools"}

VARIABLES
    \* ---- ToolCall object
    ctorArgs,       \* arguments of the ToolCall(...) / tool_call(...) call
    ctorError,      \* "pending" | "none" | "ValueError"
    tool,           \* the constructed ToolCall's attributes
    \* ---- one invocation of run / async_run / __call__
    callMode,       \* "none" or the entry point used
    callPc,         \* "idle" | "attempt" | "sleeping" | "returned" | "raised"
    now,            \* time.monotonic()
    start_time,     \* start_time local of the retry loop
    attempt,        \* attempt local of the retry loop
    backoff,        \* backoff local of the retry loop (the pending sleep)
    outcome,        \* what the caller receives
    \* ---- observations of the call
    invocations,    \* how often validate_func was called
    failures,       \* how often the handler raised
    lastErr,        \* the exception of the handler's latest failure
    lastRet,        \* the value of the handler's latest successful return
    delays,         \* the sleeps performed, in order
    busy,           \* total time spent inside the handler
    execPath,       \* how _async_execute ran the handler
    \* ---- the pool registry (module globals of vaul/mcp.py)
    registry,       \* _persistent_pools: url -> entry, NoEntry when absent
    regLock,        \* holder of _persistent_pools_lock
    nextEntry,      \* the next _PersistentSSEPool object to be allocated
    entry,          \* the _PersistentSSEPool objects
    callerHeaders,  \* the header sets this run's callers pass to _get_pool
    \* ---- caller threads
    tpc,            \* position of each thread
    turl,           \* its url argument
    thdr,           \* its headers argument
    tpool,          \* its local pool
    tfound,         \* what _persistent_pools.get(url) gave it
    tfoundClosed,   \* whether that entry's closed flag was set then
    got,            \* the entry its last _get_pool returned
    \* ---- observations
    urlCloses,      \* per entry: close() calls made by close_mcp_url
    removedEver,    \* per url: an entry was popped from the registry
    lateNoop,       \* a close_mcp_url found no entry for a url closed before
    \* ---- users of the registry
    tsnap,          \* per thread: inside close_all_mcp_urls, and the urls of
                    \* its snapshot still to be closed, in order
    toolPool,       \* the entry captured by the tools tools_from_mcp_url made
    toolRes,        \* what the latest invocation of such a tool gave
    \* ---- one _PersistentSSEPool object, its loop thread and its callers
    loop,           \* the private event loop: state, _stopping, _ready, and
                    \* how many handles of this iteration are left to run
    pool,           \* the object's fields
    task,           \* the coroutines scheduled on the loop
    cfut,           \* the concurrent future each caller thread waits for
    cpc,            \* position of each caller thread
    cop,            \* the operation it is in
    cres,           \* what its last operation gave it
    built,          \* the constructor returned the object
    exits,          \* how often _shutdown ran to its loop.stop()
    \* ---- calls of one tool dispatched together
    dmode,          \* "none" or how the callers run
    dcall,          \* per call: where its handler is
    dleft,          \* per call: handler time still to pass
    dready,         \* the caller loop's ready tasks, in order
    dnow,           \* time since the dispatch
    \* ---- tools_from_mcp_url with hidden_context
    hserver,        \* the parameter names in the inputSchema the server lists
    hcaller,        \* the dict object the caller passes as hidden_context
    hload,          \* per load: the closure's hidden, what the caller's dict
                    \* held at the call, and the tool's visible parameters
    hlast,          \* the latest invocation: its tool's load, its arguments
                    \* and the arguments sent to the session
    \* ---- a Toolkit (vaul/registry.py)
    kit,            \* the names in _tools_df, in row order
    kitCalls,       \* per tool: how often its handler was invoked
    kitRes,         \* the latest Toolkit operation and what it gave
    \* ---- threads sharing that Toolkit
    rpc,            \* per thread: where it is in add / run_tool / remove
    rread,          \* per thread: the frame it computed and has yet to assign
    rout,           \* per thread: "none" | "result" | "error"
    \* ---- async_run calls of one retrying tool gathered on one loop
    gtool,          \* the tool's max_timeout and max_backoff
    gnow,           \* time.monotonic()
    gpc,            \* per call: "pending" | "ready" | "sleeping" | "returned" | "raised"
    gattempt,       \* per call: its attempt local
    gstart,         \* per call: its start_time local
    gwake,          \* per call: when its asyncio.sleep ends
    gdelays,        \* per call: the backoffs it has slept or is sleeping
    ginv,           \* per call: how often the handler ran for it
    \* ---- one retrying tool run both ways on the same handler behaviour
    eqIn,           \* the tool, what its handler does attempt by attempt, how long
    eqOut           \* per entry point: invocations, delays and outcome of the call

toolVars == <<ctorArgs, ctorError, tool>>
callVars == <<callMode, callPc, now, start_time, attempt, backoff, outcome,
              invocations, failures, lastErr, lastRet, delays, busy, execPath>>
regVars == <<registry, regLock, nextEntry, entry, callerHeaders>>
threadVars == <<tpc, turl, thdr, tpool, tfound, tfoundClosed, got>>
obsVars == <<urlCloses, removedEver, lateNoop>>
clientVars == <<toolPool, toolRes>>
poolVars == <<regVars, threadVars, obsVars, tsnap, clientVars>>
entryVars == <<loop, pool, task, cfut, cpc, cop, cres, built, exits>>
dispatchVars == <<dmode, dcall, dleft, dready, dnow>>
hiddenVars == <<hserver, hcaller, hload, hlast>>
toolkitVars == <<kit, kitCalls, kitRes>>
raceVars == <<rpc, rread, rout>>
gatherVars == <<gtool, gnow, gpc, gattempt, gstart, gwake, gdelays, ginv>>
equivVars == <<eqIn, eqOut>>
extVars == <<raceVars, gatherVars, equivVars>>
libVars == <<hiddenVars, toolkitVars, extVars>>
vars == <<toolVars, callVars, poolVars, entryVars, dispatchVars, libVars>>

\* --------------------------------------------------------------- helpers
Min(a, b) == IF a <= b THEN a ELSE b

Return(v) == [kind |-> "return", val |-> v, err |-> NoErr]
Raise(e) == [kind |-> "raise", val |-> "", err |-> e]
NoOutcome == [kind |-> "none", val |-> "", err |-> NoErr]

\* str(e) of an exception: its message; the type is not part of it.
Str(e) == e.msg

HandlerOutcomes == {Return(v) : v \in Values} \cup {Raise(e) : e \in Errors}

\* The two entry points that retry, and the record of one call.
RetryModes == {"run", "async_run"}
NoRun == [ran |-> FALSE, inv |-> 0, delays |-> <<>>, outcome |-> NoOutcome]
NoInput == [chosen |-> FALSE]

\* ------------------------------------------------------- ToolCall.__init__
NoTool == [built |-> FALSE, func |-> "Blocking", raise_for_exception |-> FALSE,
           retry |-> FALSE, concurrent |-> FALSE,
           max_timeout |-> NoneArg, max_backoff |-> NoneArg]
NoArgs == [func |-> "Blocking", raise_for_exception |-> FALSE, retry |-> FALSE,
           max_timeout |-> NoneArg, max_backoff |-> NoneArg, concurrent |-> FALSE]

CtorArgSets == [func : HandlerKinds, raise_for_exception : BOOLEAN, retry : BOOLEAN,
                max_timeout : TimeoutArgs, max_backoff : BackoffArgs,
                concurrent : BOOLEAN]

\* The check inverted: the legal combination is the one rejected.
RetryNeedsRaiseInverted(a) == a.retry /\ a.raise_for_exception

\* The check of line 156: retry without raise_for_exception is rejected.
RetryNeedsRaise(a) == a.retry /\ ~a.raise_for_exception

\* ToolCall.__init__: the ValueError, or the object's attributes.
ToolCallInit(a) ==
    IF RetryNeedsRaise(a)
    THEN [err |-> "ValueError", tool |-> NoTool]
    ELSE [err |-> "none",
          tool |-> [built |-> TRUE,
                    func |-> a.func,
                    raise_for_exception |-> a.raise_for_exception,
                    retry |-> a.retry,
                    concurrent |-> a.concurrent,
                    max_timeout |->
                        IF a.retry
                        THEN (IF a.max_timeout # NoneArg THEN a.max_timeout
                              ELSE DefaultMaxTimeout)
                        ELSE NoneArg,
                    max_backoff |->
                        IF a.retry
                        THEN (IF a.max_backoff # NoneArg THEN a.max_backoff
                              ELSE DefaultMaxBackoff)
                        ELSE NoneArg]]

\* tool_call(func, ...) and tool_call(...)(f) both pass their arguments on.
tool_call(a) == ToolCallInit(a)

\* ------------------------------------------------------- handler invocation
\* self.validate_func(**arguments) called synchronously (run, __call__): a
\* coroutine function only builds its coroutine, which neither runs the body
\* nor raises.
SyncInvoke(t, h) == IF t.func = "NonBlocking" THEN Return(CoroutineObject) ELSE h

\* How long the synchronous call takes: building a coroutine takes no time.
SyncLatency(t, l) == IF t.func = "NonBlocking" THEN 0 ELSE l

\* The except clause without the conversion: every error propagates.
RecoverNever(t, r) == r

\* The except clause of __call__, run (no retry) and _async_execute.
Recover(t, r) ==
    IF r.kind = "raise" /\ ~t.raise_for_exception THEN Return(Str(r.err)) ELSE r

\* _async_execute without the offload: a blocking handler is always called
\* on the loop.
ExecPathNeverOffloads(t) ==
    IF t.func = "NonBlocking"
    THEN (IF t.concurrent THEN "awaited" ELSE "inline_awaited")
    ELSE "inline"

\* _async_execute offloading every blocking handler, whatever the flag.
ExecPathAlwaysOffloads(t) ==
    IF t.func = "NonBlocking"
    THEN (IF t.concurrent THEN "awaited" ELSE "inline_awaited")
    ELSE "executor"

\* _async_execute without the iscoroutinefunction test: with concurrent set
\* every handler goes to the executor.
ExecPathNoCoroutineTest(t) ==
    IF t.concurrent
    THEN "executor"
    ELSE (IF t.func = "NonBlocking" THEN "inline_awaited" ELSE "inline")

\* _async_execute: which way the handler is run.
ExecPathOf(t) ==
    IF t.concurrent
    THEN (IF t.func = "NonBlocking" THEN "awaited" ELSE "executor")
    ELSE (IF t.func = "NonBlocking" THEN "inline_awaited" ELSE "inline")

\* _async_execute: the handler's outcome h as the awaiting caller sees it.
AsyncExecute(t, h) == Recover(t, h)

\* The backoff without its cap.
BackoffUncapped(k, maxBackoff) == BaseDelay * (2 ^ k)

\* backoff = min(0.1 * (2 ** attempt), self._max_backoff)
Backoff(k, maxBackoff) == Min(BaseDelay * (2 ^ k), maxBackoff)

\* The elapsed time taken between two readings of the same clock.
ElapsedOfNothing(clock, start) == clock - clock

\* elapsed = time.monotonic() - start_time
Elapsed(clock, start) == clock - start

\* The budget test with a strict comparison.
BudgetExhaustedStrict(elapsed, maxTimeout) == elapsed > maxTimeout

\* elapsed >= self._max_timeout
BudgetExhausted(elapsed, maxTimeout) == elapsed >= maxTimeout

\* A loop that also retries a falsy result.
IsFailureOrFalsy(r) == r.kind = "raise" \/ (r.kind = "return" /\ r.val = "")

\* except Exception: the loop goes on only when the attempt raised.
IsFailure(r) == r.kind = "raise"

\* The except clause of run's retry loop once the budget is exhausted.
RunGiveUp(t, r) == IF t.raise_for_exception THEN r ELSE Return(Str(r.err))

\* Giving up with a synthetic timeout error in place of the handler's.
AsyncGiveUpWrapped(t, r) == Raise([type |-> "TimeoutError", msg |-> "retry timed out"])

\* The except clause of async_run's retry loop once the budget is exhausted.
AsyncGiveUp(t, r) == r

\* ------------------------------------------------------------------ Init
InitTool ==
    /\ ctorArgs = NoArgs
    /\ ctorError = "pending"
    /\ tool = NoTool

InitCall ==
    /\ callMode = "none"
    /\ callPc = "idle"
    /\ now = 0
    /\ start_time = 0
    /\ attempt = 0
    /\ backoff = 0
    /\ outcome = NoOutcome
    /\ invocations = 0
    /\ failures = 0
    /\ lastErr = NoErr
    /\ lastRet = ""
    /\ delays = <<>>
    /\ busy = 0
    /\ execPath = "none"

\* A _PersistentSSEPool not yet constructed.
\* A thread that is not inside close_all_mcp_urls.
NoSnapshot == [active |-> FALSE, urls |-> <<>>]

NoPool == [url |-> "", headers |-> "", state |-> "unborn", closed |-> FALSE,
           loop |-> "none", closeLock |-> NoThread, shutdown |-> "none",
           exits |-> 0]

InitPool ==
    /\ registry = [u \in Urls |-> NoEntry]
    /\ regLock = NoThread
    /\ nextEntry = 1
    /\ entry = [e \in Entries |-> NoPool]
    /\ callerHeaders = {"h1"}
    /\ tpc = [t \in Threads |-> "idle"]
    /\ turl = [t \in Threads |-> "u1"]
    /\ thdr = [t \in Threads |-> "h1"]
    /\ tpool = [t \in Threads |-> NoEntry]
    /\ tfound = [t \in Threads |-> NoEntry]
    /\ tfoundClosed = [t \in Threads |-> FALSE]
    /\ got = [t \in Threads |-> NoEntry]
    /\ urlCloses = [e \in Entries |-> 0]
    /\ removedEver = [u \in Urls |-> FALSE]
    /\ lateNoop = FALSE
    /\ tsnap = [t \in Threads |-> NoSnapshot]
    /\ toolPool = NoEntry
    /\ toolRes = "none"

\* A handle in the loop's _ready queue: the callback that turns a
\* coroutine handed over by run_coroutine_threadsafe into a task ("start"),
\* a step of a task ("step"), or the done-callback that copies a finished
\* task's result into its concurrent future ("deliver").
Handle(kind, k) == [kind |-> kind, id |-> k]

\* _PersistentSSEPool.__init__ up to self.thread.start() and the first
\* lines of _loop_thread: the loop runs with _open as its only task, and
\* the constructing thread (thread 1) is in self._ready.wait(timeout=10).
InitEntry ==
    /\ loop = [state |-> "running", stopping |-> FALSE,
               ready |-> <<Handle("step", OpenTask)>>, todo |-> 0]
    /\ pool = [ready |-> FALSE, closed |-> FALSE, init_ok |-> FALSE,
               close_lock |-> NoThread, lock |-> "none", holder |-> NoTask,
               waiters |-> <<>>, sess_ctx |-> "none"]
    /\ task = [k \in Tasks |-> IF k = OpenTask THEN "new" ELSE "none"]
    /\ cfut = [t \in Threads |-> "none"]
    /\ cpc = [t \in Threads |-> IF t = 1 THEN "ready_wait" ELSE "idle"]
    /\ cop = [t \in Threads |-> IF t = 1 THEN "init" ELSE "none"]
    /\ cres = [t \in Threads |-> "none"]
    /\ built = FALSE
    /\ exits = 0

\* Argument names and values of an MCP tool; Absent marks a key a dict
\* does not hold.
Keys == {"a", "b"}
ArgValues == {"v1", "v2"}
Absent == "absent"
Dicts == [Keys -> ArgValues \cup {Absent}]
EmptyDict == [k \in Keys |-> Absent]

\* The calls of tools_from_mcp_url that are followed.
Loads == {"first", "second"}

NotLoaded == [loaded |-> FALSE, hidden |-> EmptyDict, given |-> EmptyDict,
              params |-> {}]

NoInvocation == [load |-> "none", args |-> EmptyDict, sent |-> EmptyDict]

\* The server's tool has no parameters yet, the caller's dict is empty and
\* nothing is loaded.
InitHidden ==
    /\ hserver = {}
    /\ hcaller = EmptyDict
    /\ hload = [l \in Loads |-> NotLoaded]
    /\ hlast = NoInvocation

\* Names of the tools a Toolkit is used with (tool.func.__name__).
ToolNames == {"t1", "t2"}

NoKitOp == [op |-> "none", name |-> "", outcome |-> "none"]

\* Toolkit.__init__: an empty _tools_df.
InitToolkit ==
    /\ kit = <<>>
    /\ kitCalls = [n \in ToolNames |-> 0]
    /\ kitRes = NoKitOp

\* No thread has touched the shared Toolkit yet.
InitRace ==
    /\ rpc = [t \in Racers |-> "start"]
    /\ rread = [t \in Racers |-> <<>>]
    /\ rout = [t \in Racers |-> "none"]

\* The gathered calls have not been made and the tool is not yet defined.
InitGather ==
    /\ gtool = NoConfig
    /\ gnow = 0
    /\ gpc = [c \in Retriers |-> "pending"]
    /\ gattempt = [c \in Retriers |-> 0]
    /\ gstart = [c \in Retriers |-> 0]
    /\ gwake = [c \in Retriers |-> 0]
    /\ gdelays = [c \in Retriers |-> <<>>]
    /\ ginv = [c \in Retriers |-> 0]

\* No handler behaviour chosen, neither entry point run.
InitEquiv ==
    /\ eqIn = NoInput
    /\ eqOut = [m \in RetryModes |-> NoRun]

\* Nothing dispatched yet.
InitDispatch ==
    /\ dmode = "none"
    /\ dcall = [i \in Calls |-> "pending"]
    /\ dleft = [i \in Calls |-> HandlerLatency]
    /\ dready = <<>>
    /\ dnow = 0

Init ==
    /\ InitTool /\ InitCall /\ InitPool /\ InitEntry /\ InitDispatch
    /\ InitHidden /\ InitToolkit /\ InitRace /\ InitGather /\ InitEquiv

\* --------------------------------------------------------------- actions
\* ToolCall(func, ...) or tool_call(...): the constructor runs once.
Construct ==
    /\ ctorError = "pending"
    /\ \E a \in CtorArgSets :
          /\ ctorArgs' = a
          /\ ctorError' = tool_call(a).err
          /\ tool' = tool_call(a).tool
    /\ UNCHANGED <<callVars, poolVars, entryVars, dispatchVars, libVars>>

\* The caller enters run, async_run or __call__ of a constructed tool.
StartCall ==
    /\ tool.built
    /\ callPc = "idle"
    /\ \E m \in CallModes :
          /\ callMode' = m
          /\ execPath' = IF m = "async_run" THEN ExecPathOf(tool) ELSE "sync"
    /\ callPc' = "attempt"
    /\ start_time' = now
    /\ attempt' = 0
    /\ UNCHANGED <<toolVars, now, backoff, outcome, invocations, failures,
                   lastErr, lastRet, delays, busy, poolVars, entryVars, dispatchVars, libVars>>

\* ------------------------------ the retry loop as a function of its input
\* What the handler does on its k-th invocation (k from 0): the pattern's
\* entries in order, its last entry from then on.
PatternAt(pat, k) == IF k < Len(pat) THEN pat[k + 1] ELSE pat[Len(pat)]

\* run (decorators.py:251-266) and async_run (272-285) from their k-th pass
\* on, the handler taking l each time: the invocations made, the backoffs
\* slept and what the caller receives; no outcome if MaxAttempts passes
\* do not end the call.
RECURSIVE RetryFrom(_, _, _, _, _, _, _)
RetryFrom(mode, t, pat, l, k, clock, slept) ==
    IF k >= MaxAttempts
    THEN [ran |-> TRUE, inv |-> k, delays |-> slept, outcome |-> NoOutcome]
    ELSE LET h0 == PatternAt(pat, k)
             h == IF mode = "async_run" THEN h0 ELSE SyncInvoke(t, h0)
             lat == IF mode = "async_run" THEN l ELSE SyncLatency(t, l)
             r == IF mode = "async_run" THEN AsyncExecute(t, h) ELSE h
             giveUp == IF mode = "async_run"
                       THEN AsyncGiveUp(t, r) ELSE RunGiveUp(t, r)
         IN  IF ~IsFailure(r)
             THEN [ran |-> TRUE, inv |-> k + 1, delays |-> slept, outcome |-> r]
             ELSE IF BudgetExhausted(Elapsed(clock + lat, 0), t.max_timeout)
             THEN [ran |-> TRUE, inv |-> k + 1, delays |-> slept,
                   outcome |-> giveUp]
             ELSE RetryFrom(mode, t, pat, l, k + 1,
                            clock + lat + Backoff(k, t.max_backoff),
                            Append(slept, Backoff(k, t.max_backoff)))

\* A retrying tool is made and its handler's behaviour and duration fixed.
EquivChoose ==
    /\ eqIn = NoInput
    /\ \E a \in CtorArgSets, l \in 0..MaxLatency,
          pat \in [1..PatternLen -> HandlerOutcomes] :
          /\ a.retry /\ tool_call(a).err = "none"
          /\ eqIn' = [chosen |-> TRUE, tool |-> tool_call(a).tool,
                      pattern |-> pat, latency |-> l]
    /\ UNCHANGED <<toolVars, callVars, poolVars, entryVars, dispatchVars,
                   hiddenVars, toolkitVars, raceVars, gatherVars, eqOut>>

\* The tool is called through one of the two entry points, the clock at 0.
EquivRun(m) ==
    /\ eqIn # NoInput
    /\ ~eqOut[m].ran
    /\ eqOut' = [eqOut EXCEPT ![m] =
                     RetryFrom(m, eqIn.tool, eqIn.pattern, eqIn.latency, 0, 0, <<>>)]
    /\ UNCHANGED <<toolVars, callVars, poolVars, entryVars, dispatchVars,
                   hiddenVars, toolkitVars, raceVars, gatherVars, eqIn>>

EquivNext == EquivChoose \/ \E m \in RetryModes : EquivRun(m)

EquivSpec == Init /\ [][EquivNext]_vars

\* Whether this call runs the retry loop: __call__ never does.
Retrying == tool.retry /\ callMode \in {"run", "async_run"}

\* One pass of the loop body (or the single try of a call without retry):
\* the handler is invoked, takes l and returns or raises h; the except
\* clause then ends the call or computes the next backoff.
Attempt ==
    /\ callPc = "attempt"
    /\ invocations < MaxAttempts
    /\ \E h0 \in HandlerOutcomes, l0 \in 0..MaxLatency :
        LET h == IF callMode = "async_run" THEN h0 ELSE SyncInvoke(tool, h0)
            l == IF callMode = "async_run" THEN l0 ELSE SyncLatency(tool, l0)
            r == IF Retrying
                 THEN (IF callMode = "async_run" THEN AsyncExecute(tool, h) ELSE h)
                 ELSE Recover(tool, h)
            elapsed == Elapsed(now + l, start_time)
            giveUp == IF callMode = "async_run"
                      THEN AsyncGiveUp(tool, r) ELSE RunGiveUp(tool, r)
        IN  /\ now' = now + l
            /\ busy' = busy + l
            /\ invocations' = invocations + 1
            /\ failures' = IF h.kind = "raise" THEN failures + 1 ELSE failures
            /\ lastErr' = IF h.kind = "raise" THEN h.err ELSE lastErr
            /\ lastRet' = IF h.kind = "return" THEN h.val ELSE lastRet
            /\ IF ~IsFailure(r)
               THEN /\ outcome' = r
                    /\ callPc' = "returned"
                    /\ backoff' = backoff
               ELSE IF ~Retrying
               THEN /\ outcome' = r
                    /\ callPc' = "raised"
                    /\ backoff' = backoff
               ELSE IF BudgetExhausted(elapsed, tool.max_timeout)
               THEN /\ outcome' = giveUp
                    /\ callPc' = IF giveUp.kind = "raise" THEN "raised" ELSE "returned"
                    /\ backoff' = backoff
               ELSE /\ outcome' = outcome
                    /\ callPc' = "sleeping"
                    /\ backoff' = Backoff(attempt, tool.max_backoff)
    /\ UNCHANGED <<toolVars, callMode, start_time, attempt, delays, execPath,
                   poolVars, entryVars, dispatchVars, libVars>>

\* A loop that tests the budget again when the sleep is over.
AfterSleepRechecks(elapsed, maxTimeout) ==
    IF elapsed >= maxTimeout THEN "raised" ELSE "attempt"

\* while True: after the sleep and attempt += 1 the loop body starts over
\* with the try, whatever time it is.
AfterSleep(elapsed, maxTimeout) == "attempt"

\* time.sleep(backoff) / await asyncio.sleep(backoff), then attempt += 1.
Sleep ==
    /\ callPc = "sleeping"
    /\ now' = now + backoff
    /\ delays' = Append(delays, backoff)
    /\ attempt' = attempt + 1
    /\ callPc' = AfterSleep(Elapsed(now + backoff, start_time), tool.max_timeout)
    /\ UNCHANGED <<toolVars, callMode, start_time, backoff, outcome, invocations,
                   failures, lastErr, lastRet, busy, execPath, poolVars, entryVars, dispatchVars, libVars>>

Next == Construct \/ StartCall \/ Attempt \/ Sleep

Spec == Init /\ [][Next]_vars

\* A started handler returns or raises and a started sleep ends.
FairSpec == Spec /\ WF_vars(Attempt) /\ WF_vars(Sleep)

\* ==================================== calls dispatched together on one tool
\* Where a call's handler is: "pending" not started; "handler" running in
\* the loop's own thread; "worker" running in an executor thread;
\* "suspended" a coroutine handler waiting at an await of its own;
\* "thread" running in the calling thread (run); "woken" / "finished" its
\* wait is over and the task is ready to resume; "done".
Executing(i) == dcall[i] \in {"handler", "worker", "suspended", "woken", "thread"}

\* Handlers for which time passes: all of them run or wait in parallel.
Busy(i) == dcall[i] \in {"handler", "worker", "suspended", "thread"}

\* The loop's thread is inside a blocking handler and can run no task.
LoopFreeAlways == TRUE

LoopFree == \A i \in Calls : dcall[i] # "handler"

\* NumCalls calls of one tool without retry are made together: coroutines
\* of async_run handed to asyncio.gather, which makes their tasks in
\* order, or threads that each call run.
Dispatch ==
    /\ tool.built
    /\ ~tool.retry
    /\ dmode = "none"
    /\ \E m \in DispatchModes :
          /\ dmode' = m
          /\ dready' = IF m = "gather" THEN [i \in Calls |-> i] ELSE <<>>
    /\ UNCHANGED <<libVars, toolVars, callVars, poolVars, entryVars, dcall, dleft, dnow>>

\* The loop runs its next ready task. A new task goes through async_run
\* into _async_execute: a blocking handler called inline keeps the loop's
\* thread; one given to run_in_executor runs in a worker while the task
\* waits; a coroutine handler runs to its own await. A resumed task
\* returns its result.
TaskStep ==
    /\ dmode = "gather"
    /\ dready # <<>>
    /\ LoopFree
    /\ LET i == Head(dready)
           path == ExecPathOf(tool)
       IN  dcall' = [dcall EXCEPT ![i] =
                        IF dcall[i] # "pending" THEN "done"
                        ELSE IF path = "inline" THEN "handler"
                        ELSE IF path = "executor" THEN "worker"
                        ELSE "suspended"]
    /\ dready' = Tail(dready)
    /\ UNCHANGED <<libVars, toolVars, callVars, poolVars, entryVars, dmode, dleft, dnow>>

\* The blocking handler called on the loop returns; so does _async_execute
\* and the task is finished.
HandlerReturns(i) ==
    /\ dcall[i] = "handler"
    /\ dleft[i] = 0
    /\ dcall' = [dcall EXCEPT ![i] = "done"]
    /\ UNCHANGED <<libVars, toolVars, callVars, poolVars, entryVars, dmode, dleft, dready,
                   dnow>>

\* The worker's handler returned, or the coroutine handler's wait ended:
\* the task is ready again.
Wake(i) ==
    /\ dcall[i] \in {"worker", "suspended"}
    /\ dleft[i] = 0
    /\ dcall' = [dcall EXCEPT ![i] = IF @ = "worker" THEN "finished" ELSE "woken"]
    /\ dready' = Append(dready, i)
    /\ UNCHANGED <<libVars, toolVars, callVars, poolVars, entryVars, dmode, dleft, dnow>>

\* A thread calls run: a blocking handler runs in that thread; a coroutine
\* function only hands back its coroutine object.
ThreadRun(i) ==
    /\ dmode = "threads"
    /\ dcall[i] = "pending"
    /\ dcall' = [dcall EXCEPT ![i] =
                    IF SyncInvoke(tool, Return("ok")) = Return(CoroutineObject)
                    THEN "done" ELSE "thread"]
    /\ UNCHANGED <<libVars, toolVars, callVars, poolVars, entryVars, dmode, dleft, dready,
                   dnow>>

\* The handler run by a calling thread returns.
ThreadReturns(i) ==
    /\ dcall[i] = "thread"
    /\ dleft[i] = 0
    /\ dcall' = [dcall EXCEPT ![i] = "done"]
    /\ UNCHANGED <<libVars, toolVars, callVars, poolVars, entryVars, dmode, dleft, dready,
                   dnow>>

\* A tenth of a second passes for every handler that is running or
\* waiting. The loop runs a ready task, and a finished wait is noticed,
\* before time moves on.
Tick ==
    /\ dmode # "none"
    /\ dready = <<>> \/ ~LoopFree
    /\ \A i \in Calls : Busy(i) => dleft[i] > 0
    /\ \E i \in Calls : Busy(i)
    /\ dnow' = dnow + 1
    /\ dleft' = [i \in Calls |-> IF Busy(i) THEN dleft[i] - 1 ELSE dleft[i]]
    /\ UNCHANGED <<libVars, toolVars, callVars, poolVars, entryVars, dmode, dcall, dready>>

DispatchNext ==
    \/ Construct
    \/ Dispatch
    \/ TaskStep
    \/ Tick
    \/ \E i \in Calls :
          HandlerReturns(i) \/ Wake(i) \/ ThreadRun(i) \/ ThreadReturns(i)

DispatchSpec == Init /\ [][DispatchNext]_vars

\* ================================================ the pool registry, mcp.py
\* An RLock: free, or already held by the thread asking.
RegistryLockFreeNever(t) == TRUE

RegistryLockFree(t) == regLock = NoThread \/ regLock = t

\* pool is None or ... pool._closed.is_set(): no entry, or a closed one.
IsStaleOnlyNone(p) == p = NoEntry

IsStale(p) == p = NoEntry \/ entry[p].closed

\* _persistent_pools.pop(url, None): the map without the url.
PopKeeps(reg, u) == reg

Pop(reg, u) == [reg EXCEPT ![u] = NoEntry]

\* Threads inside _get_pool that have not constructed yet.
AboutToConstruct == {x \in Threads : tpc[x] \in {"gp_lookup", "gp_construct"}}

\* A thread calls _get_pool(url, headers) and enters
\* with _persistent_pools_lock: it gets in once the lock is free.
GetPoolEnter(t) ==
    /\ tpc[t] = "idle"
    /\ RegistryLockFree(t)
    /\ nextEntry + Cardinality(AboutToConstruct) <= MaxEntries
    /\ \E u \in Urls, h \in callerHeaders :
          /\ turl' = [turl EXCEPT ![t] = u]
          /\ thdr' = [thdr EXCEPT ![t] = h]
    /\ regLock' = t
    /\ tpc' = [tpc EXCEPT ![t] = "gp_lookup"]
    /\ UNCHANGED <<libVars, toolVars, callVars, entryVars, dispatchVars, tsnap, clientVars,
                   registry, nextEntry, entry, callerHeaders,
                   tpool, tfound, tfoundClosed, got, obsVars>>

\* pool = _persistent_pools.get(url); the staleness test; the eviction.
GetPoolLookup(t) ==
    /\ tpc[t] = "gp_lookup"
    /\ LET p == registry[turl[t]]
       IN  /\ tfound' = [tfound EXCEPT ![t] = p]
           /\ tfoundClosed' =
                 [tfoundClosed EXCEPT ![t] = (p # NoEntry /\ entry[p].closed)]
           /\ IF IsStale(p)
              THEN /\ registry' = IF p # NoEntry THEN Pop(registry, turl[t])
                                  ELSE registry
                   /\ removedEver' = IF p # NoEntry
                                     THEN [removedEver EXCEPT ![turl[t]] = TRUE]
                                     ELSE removedEver
                   /\ tpool' = tpool
                   /\ tpc' = [tpc EXCEPT ![t] = "gp_construct"]
              ELSE /\ registry' = registry
                   /\ removedEver' = removedEver
                   /\ tpool' = [tpool EXCEPT ![t] = p]
                   /\ tpc' = [tpc EXCEPT ![t] = "gp_return"]
    /\ UNCHANGED <<libVars, toolVars, callVars, entryVars, dispatchVars, tsnap, clientVars,
                   regLock, nextEntry, entry, callerHeaders,
                   turl, thdr, got, urlCloses, lateNoop>>

\* How _PersistentSSEPool.__init__ can go: _open succeeds; _open fails
\* (its finally sets _ready and stops the loop); _ready.wait(10) times out
\* with _open still pending on the running loop.
InitResults == {"ok", "init_failed", "ready_timeout"}

\* _PersistentSSEPool(url, headers) up to the readiness wait.
NewPool(u, h, res) ==
    [url |-> u, headers |-> h,
     state |-> CASE res = "ok" -> "ready"
                 [] res = "init_failed" -> "failed"
                 [] OTHER -> "initializing",
     closed |-> FALSE,
     loop |-> IF res = "init_failed" THEN "stopped" ELSE "running",
     closeLock |-> NoThread, shutdown |-> "none", exits |-> 0]

\* pool = _PersistentSSEPool(url, headers): on success the constructor
\* returns; otherwise it calls self.close() before it would raise.
GetPoolConstruct(t) ==
    /\ tpc[t] = "gp_construct"
    /\ nextEntry <= MaxEntries
    /\ \E res \in InitResults :
          /\ entry' = [entry EXCEPT ![nextEntry] = NewPool(turl[t], thdr[t], res)]
          /\ tpc' = [tpc EXCEPT ![t] = IF res = "ok" THEN "gp_insert" ELSE "cl_check"]
    /\ tpool' = [tpool EXCEPT ![t] = nextEntry]
    /\ nextEntry' = nextEntry + 1
    /\ UNCHANGED <<libVars, toolVars, callVars, entryVars, dispatchVars, tsnap, clientVars,
                   registry, regLock, callerHeaders, turl, thdr,
                   tfound, tfoundClosed, got, obsVars>>

\* _persistent_pools[url] = pool
GetPoolInsert(t) ==
    /\ tpc[t] = "gp_insert"
    /\ registry' = [registry EXCEPT ![turl[t]] = tpool[t]]
    /\ tpc' = [tpc EXCEPT ![t] = "gp_return"]
    /\ UNCHANGED <<libVars, toolVars, callVars, entryVars, dispatchVars, tsnap, clientVars,
                   regLock, nextEntry, entry, callerHeaders,
                   turl, thdr, tpool, tfound, tfoundClosed, got, obsVars>>

\* The locals of a thread whose operation has ended; a close_mcp_url
\* called by close_all_mcp_urls returns into its for loop.
DropLocals(t) ==
    /\ tpc' = [tpc EXCEPT ![t] = IF tsnap[t].active THEN "ca_loop" ELSE "idle"]
    /\ turl' = [turl EXCEPT ![t] = "u1"]
    /\ thdr' = [thdr EXCEPT ![t] = "h1"]
    /\ tpool' = [tpool EXCEPT ![t] = NoEntry]
    /\ tfound' = [tfound EXCEPT ![t] = NoEntry]
    /\ tfoundClosed' = [tfoundClosed EXCEPT ![t] = FALSE]

\* return pool, leaving the with block.
GetPoolReturn(t) ==
    /\ tpc[t] = "gp_return"
    /\ regLock' = NoThread
    /\ got' = [got EXCEPT ![t] = tpool[t]]
    /\ DropLocals(t)
    /\ UNCHANGED <<libVars, toolVars, callVars, entryVars, dispatchVars, tsnap, clientVars,
                   registry, nextEntry, entry, callerHeaders,
                   obsVars>>

\* close_mcp_url(url): the pop under the lock, then pool.close() is entered
\* if there was an entry; without one the call returns at once.
CloseMcpUrl(t, u) ==
    /\ RegistryLockFree(t)
    /\ LET p == registry[u]
       IN  /\ registry' = Pop(registry, u)
           /\ IF p = NoEntry
              THEN /\ lateNoop' = (lateNoop \/ urlCloses # [e \in Entries |-> 0])
                   /\ UNCHANGED <<tpc, turl, tpool, urlCloses, removedEver>>
              ELSE /\ lateNoop' = lateNoop
                   /\ tpc' = [tpc EXCEPT ![t] = "cl_check"]
                   /\ turl' = [turl EXCEPT ![t] = u]
                   /\ tpool' = [tpool EXCEPT ![t] = p]
                   /\ urlCloses' = [urlCloses EXCEPT ![p] = @ + 1]
                   /\ removedEver' = [removedEver EXCEPT ![u] = TRUE]
    /\ UNCHANGED <<libVars, toolVars, callVars, entryVars, dispatchVars, clientVars,
                   regLock, nextEntry, entry, callerHeaders, thdr, tfound,
                   tfoundClosed, got>>

\* A thread calls close_mcp_url(url).
CloseUrl(t, u) ==
    /\ tpc[t] = "idle"
    /\ CloseMcpUrl(t, u)
    /\ tsnap' = tsnap

\* close() returning because the closed flag is set: close_mcp_url returns;
\* the constructor (the caller that holds the registry lock) goes on to raise
\* RuntimeError out of _get_pool's with block, which releases the lock.
CloseReturns(t) ==
    /\ DropLocals(t)
    /\ regLock' = IF regLock = t THEN NoThread ELSE regLock

\* close(): if self._closed.is_set(): return
CloseCheck(t) ==
    /\ tpc[t] = "cl_check"
    /\ IF entry[tpool[t]].closed
       THEN CloseReturns(t)
       ELSE /\ tpc' = [tpc EXCEPT ![t] = "cl_lock"]
            /\ UNCHANGED <<turl, thdr, tpool, tfound, tfoundClosed, regLock>>
    /\ UNCHANGED <<libVars, toolVars, callVars, entryVars, dispatchVars, tsnap, clientVars,
                   registry, nextEntry, entry, callerHeaders,
                   got, obsVars>>

\* close(): with self._close_lock, the second test of the flag, and
\* run_coroutine_threadsafe(_shutdown(), self.loop). The thread then waits
\* in fut.result(): _shutdown ends with loop.stop(), the loop leaves
\* run_forever after the iteration in which the task finished, and the
\* callback that would complete fut is left in the loop's ready queue; on a
\* loop that is already stopped the task never starts. fut is never done, so
\* the thread stays in "cl_wait" holding _close_lock, and the join and
\* self._closed.set() after it are not reached.
CloseLock(t) ==
    /\ tpc[t] = "cl_lock"
    /\ entry[tpool[t]].closeLock = NoThread
    /\ IF entry[tpool[t]].closed
       THEN /\ CloseReturns(t)
            /\ entry' = entry
       ELSE /\ entry' = [entry EXCEPT ![tpool[t]].closeLock = t,
                                      ![tpool[t]].shutdown = "queued"]
            /\ tpc' = [tpc EXCEPT ![t] = "cl_wait"]
            /\ UNCHANGED <<turl, thdr, tpool, tfound, tfoundClosed, regLock>>
    /\ UNCHANGED <<libVars, toolVars, callVars, entryVars, dispatchVars, tsnap, clientVars,
                   registry, nextEntry, callerHeaders, got,
                   obsVars>>

\* The entry's loop thread runs _shutdown: the session and transport
\* contexts are exited and the loop stops.
LoopShutdown(e) ==
    /\ entry[e].loop = "running"
    /\ entry[e].shutdown = "queued"
    /\ entry' = [entry EXCEPT ![e].shutdown = "ran",
                              ![e].exits = @ + 1,
                              ![e].loop = "stopped"]
    /\ UNCHANGED <<libVars, toolVars, callVars, entryVars, dispatchVars, tsnap, clientVars,
                   registry, regLock, nextEntry, callerHeaders,
                   threadVars, obsVars>>

\* Code outside the module sets a registered entry's closed flag
\* (pool._closed.set()), as the tests do.
MarkClosed(e) ==
    /\ \E u \in Urls : registry[u] = e
    /\ ~entry[e].closed
    /\ entry' = [entry EXCEPT ![e].closed = TRUE]
    /\ UNCHANGED <<libVars, toolVars, callVars, entryVars, dispatchVars, tsnap, clientVars,
                   registry, regLock, nextEntry, callerHeaders,
                   threadVars, obsVars>>

PoolNext ==
    \/ \E t \in Threads :
          \/ GetPoolEnter(t)
          \/ GetPoolLookup(t)
          \/ GetPoolConstruct(t)
          \/ GetPoolInsert(t)
          \/ GetPoolReturn(t)
          \/ \E u \in Urls : CloseUrl(t, u)
          \/ CloseCheck(t)
          \/ CloseLock(t)
    \/ \E e \in Entries : LoopShutdown(e) \/ MarkClosed(e)

PoolSpec == Init /\ [][PoolNext]_vars

\* A thread inside _get_pool or close() takes its next step when it can,
\* and an entry's loop thread runs what is queued on it. Nothing obliges a
\* caller to start a new operation.
PoolProgress(t) ==
    GetPoolLookup(t) \/ GetPoolConstruct(t) \/ GetPoolInsert(t)
        \/ GetPoolReturn(t) \/ CloseCheck(t) \/ CloseLock(t)

PoolFairSpec ==
    /\ PoolSpec
    /\ \A t \in Threads : WF_vars(PoolProgress(t))
    /\ \A e \in Entries : WF_vars(LoopShutdown(e))

\* ---------------------------------------------------- close_all_mcp_urls
\* list(_persistent_pools.keys()): the keys in the dict's order, which is
\* the order of insertion. _get_pool inserts a url only when it is absent,
\* right after constructing the entry, so that is the order of the entries.
KeysOf(reg) == {u \in Urls : reg[u] # NoEntry}

KeyList(reg) ==
    CHOOSE s \in [1..Cardinality(KeysOf(reg)) -> KeysOf(reg)] :
        \A i, j \in DOMAIN s : i < j => reg[s[i]] < reg[s[j]]

\* close_all_mcp_urls: the snapshot of the keys, taken under the lock.
CloseAllStart(t) ==
    /\ tpc[t] = "idle"
    /\ RegistryLockFree(t)
    /\ tsnap' = [tsnap EXCEPT ![t] = [active |-> TRUE, urls |-> KeyList(registry)]]
    /\ tpc' = [tpc EXCEPT ![t] = "ca_loop"]
    /\ UNCHANGED <<libVars, toolVars, callVars, entryVars, dispatchVars, clientVars,
                   regVars, turl, thdr, tpool, tfound, tfoundClosed, got,
                   obsVars>>

\* close_all_mcp_urls: for url in urls: close_mcp_url(url)
CloseAllStep(t) ==
    /\ tpc[t] = "ca_loop"
    /\ tsnap[t].urls # <<>>
    /\ tsnap' = [tsnap EXCEPT ![t].urls = Tail(@)]
    /\ CloseMcpUrl(t, Head(tsnap[t].urls))

\* close_all_mcp_urls: the loop is through and the function returns.
CloseAllReturn(t) ==
    /\ tpc[t] = "ca_loop"
    /\ tsnap[t].urls = <<>>
    /\ tsnap' = [tsnap EXCEPT ![t] = NoSnapshot]
    /\ tpc' = [tpc EXCEPT ![t] = "idle"]
    /\ UNCHANGED <<libVars, toolVars, callVars, entryVars, dispatchVars, clientVars,
                   regVars, turl, thdr, tpool, tfound, tfoundClosed, got,
                   obsVars>>

\* A close_all_mcp_urls whose loop caught what close_mcp_url raises and
\* went on with the next url.
PropagatesCaught(snap) == IF snap.active THEN "ca_loop" ELSE "raised"

\* Neither close_mcp_url nor the for loop of close_all_mcp_urls has a try:
\* what pool.close() raises leaves both.
Propagates(snap) == "raised"

\* pool.close() raises in the calling thread (an exception out of
\* run_coroutine_threadsafe or fut.result(), an interrupt of the wait): the
\* with block gives _close_lock back if it was taken, and a constructor's
\* close takes the exception out of _get_pool's with block.
CloseRaises(t) ==
    /\ tpc[t] \in {"cl_check", "cl_lock", "cl_wait"}
    /\ tpc' = [tpc EXCEPT ![t] = Propagates(tsnap[t])]
    /\ entry' = IF entry[tpool[t]].closeLock = t
                THEN [entry EXCEPT ![tpool[t]].closeLock = NoThread]
                ELSE entry
    /\ regLock' = IF regLock = t THEN NoThread ELSE regLock
    /\ UNCHANGED <<libVars, toolVars, callVars, entryVars, dispatchVars, tsnap, clientVars,
                   registry, nextEntry, callerHeaders, turl, thdr, tpool,
                   tfound, tfoundClosed, got, obsVars>>

\* The exception reaches the caller of close_mcp_url / close_all_mcp_urls;
\* the frames it went through are gone.
RaisedToCaller(t) ==
    /\ tpc[t] = "raised"
    /\ tsnap' = [tsnap EXCEPT ![t] = NoSnapshot]
    /\ tpc' = [tpc EXCEPT ![t] = "idle"]
    /\ turl' = [turl EXCEPT ![t] = "u1"]
    /\ thdr' = [thdr EXCEPT ![t] = "h1"]
    /\ tpool' = [tpool EXCEPT ![t] = NoEntry]
    /\ tfound' = [tfound EXCEPT ![t] = NoEntry]
    /\ tfoundClosed' = [tfoundClosed EXCEPT ![t] = FALSE]
    /\ UNCHANGED <<libVars, toolVars, callVars, entryVars, dispatchVars, clientVars,
                   regVars, got, obsVars>>

CloseAllNext ==
    \/ PoolNext
    \/ \E t \in Threads :
          \/ CloseAllStart(t)
          \/ CloseAllStep(t)
          \/ CloseAllReturn(t)
          \/ CloseRaises(t)
          \/ RaisedToCaller(t)

CloseAllSpec == Init /\ [][CloseAllNext]_vars

\* ------------------------------------------------ users of the registry
\* A caller that passes another header set to tools_from_mcp_url /
\* _get_pool appears.
OtherCaller ==
    /\ callerHeaders # HeaderSets
    /\ callerHeaders' = HeaderSets
    /\ UNCHANGED <<libVars, toolVars, callVars, entryVars, dispatchVars, tsnap, clientVars,
                   registry, regLock, nextEntry, entry, threadVars, obsVars>>

\* tools_from_mcp_url after its pool = _get_pool(url, headers): the tools
\* are listed through the entry and each tool's call closes over pool, the
\* entry object itself. On an entry that is closed or whose loop has
\* stopped list_tools_async raises or never answers and no tool is made.
LoadTools(t) ==
    /\ tpc[t] = "idle"
    /\ got[t] # NoEntry
    /\ toolPool = NoEntry
    /\ ~entry[got[t]].closed
    /\ entry[got[t]].loop = "running"
    /\ entry[got[t]].shutdown = "none"
    /\ toolPool' = got[t]
    /\ UNCHANGED <<libVars, toolVars, callVars, entryVars, dispatchVars, tsnap, regVars,
                   threadVars, obsVars, toolRes>>

\* What pool.call_tool_async(name, merged) on the captured entry gives the
\* tool: RuntimeError("MCP connection is closed") with the flag set; no
\* answer ever from a loop that has stopped; behind a queued _shutdown the
\* request is answered before the loop stops or it is not.
ToolCallOutcomes(p) ==
    IF p.closed THEN {"closed_error"}
    ELSE IF p.loop = "stopped" THEN {"stranded"}
    ELSE IF p.shutdown = "queued" THEN {"result", "stranded"}
    ELSE {"result"}

\* A tool made by tools_from_mcp_url is invoked: its call awaits
\* pool.call_tool_async on the entry captured at load time. _get_pool is
\* not called and the registry is not read.
InvokeTool(t) ==
    /\ tpc[t] = "idle"
    /\ toolPool # NoEntry
    /\ \E r \in ToolCallOutcomes(entry[toolPool]) :
          /\ toolRes' = r
          /\ tpc' = [tpc EXCEPT ![t] = IF r = "stranded" THEN "tool_wait"
                                       ELSE "idle"]
    /\ UNCHANGED <<libVars, toolVars, callVars, entryVars, dispatchVars, tsnap, regVars,
                   turl, thdr, tpool, tfound, tfoundClosed, got, obsVars,
                   toolPool>>

ClientNext ==
    \/ PoolNext
    \/ OtherCaller
    \/ \E t \in Threads : LoadTools(t) \/ InvokeTool(t)

ClientSpec == Init /\ [][ClientNext]_vars

\* ------------------------------------------------ hidden_context, mcp.py
\* {**hidden, **kwargs}: every key of either dict, kwargs' value where both
\* hold the key.
Merge(hidden, kwargs) ==
    [k \in Keys |-> IF kwargs[k] # Absent THEN kwargs[k] ELSE hidden[k]]

\* The keys a dict holds.
KeysIn(d) == {k \in Keys : d[k] # Absent}

\* _create_tool_wrapper: tool_call_schema["parameters"] = schema or {},
\* the inputSchema the server listed, whatever hidden holds.
VisibleParams(schema, hidden) == schema

\* The server's tool is defined with some parameters, before any load.
ServerLists ==
    /\ \A l \in Loads : ~hload[l].loaded
    /\ \E ps \in SUBSET Keys : hserver' = ps
    /\ hserver' # hserver
    /\ UNCHANGED <<toolVars, callVars, poolVars, entryVars, dispatchVars, extVars,
                   toolkitVars, hcaller, hload, hlast>>

\* The caller changes the dict it passes, or has passed, as hidden_context.
CallerSets ==
    /\ \E k \in Keys, v \in ArgValues \cup {Absent} :
          /\ hcaller[k] # v
          /\ hcaller' = [hcaller EXCEPT ![k] = v]
    /\ UNCHANGED <<toolVars, callVars, poolVars, entryVars, dispatchVars, extVars,
                   toolkitVars, hserver, hload, hlast>>

\* tools_from_mcp_url(url, hidden_context=H): hidden = dict(hidden_context),
\* a copy made at the call; the tool made from the listed metadata carries
\* the server's schema.
LoadHidden(l) ==
    /\ ~hload[l].loaded
    /\ hload' = [hload EXCEPT ![l] =
                    [loaded |-> TRUE, hidden |-> hcaller, given |-> hcaller,
                     params |-> VisibleParams(hserver, hcaller)]]
    /\ UNCHANGED <<toolVars, callVars, poolVars, entryVars, dispatchVars, extVars,
                   toolkitVars, hserver, hcaller, hlast>>

\* A tool of load l is invoked with arguments K: merged = {**hidden,
\* **kwargs} goes to pool.call_tool_async.
InvokeHidden(l) ==
    /\ hload[l].loaded
    /\ \E K \in Dicts :
          hlast' = [load |-> l, args |-> K, sent |-> Merge(hload[l].hidden, K)]
    /\ UNCHANGED <<toolVars, callVars, poolVars, entryVars, dispatchVars, extVars,
                   toolkitVars, hserver, hcaller, hload>>

HiddenNext ==
    \/ ServerLists
    \/ CallerSets
    \/ \E l \in Loads : LoadHidden(l) \/ InvokeHidden(l)

HiddenSpec == Init /\ [][HiddenNext]_vars

\* ============================================== the Toolkit, registry.py
\* The names in the name column of _tools_df.
Registered(k) == {k[i] : i \in DOMAIN k}

\* Toolkit.get_tool: the tool of the row with that name, None ("none")
\* when no row has it. A tool is known by its name.
GetToolFirstRow(k, name) == IF k = <<>> THEN "none" ELSE k[1]

GetTool(k, name) == IF name \in Registered(k) THEN name ELSE "none"

\* What add is handed: a ToolCall, known by its name, or something else.
NotATool == "not_a_tool"
KitObjects == ToolNames \cup {NotATool}

\* isinstance(tool, ToolCall)
IsToolCall(x) == x \in ToolNames

\* not self._tools_df[self._tools_df["name"] == tool_name].empty
AlreadyRegisteredNever(k, n) == FALSE

AlreadyRegistered(k, n) == n \in Registered(k)

\* What Toolkit.add(x) raises, "added" when it raises nothing.
AddOutcome(k, x) ==
    IF ~IsToolCall(x) THEN "TypeError"
    ELSE IF AlreadyRegistered(k, x) THEN "ValueError"
    ELSE "added"

\* The rows after Toolkit.add(x): a new last row unless add raised.
AddRow(k, x) == IF AddOutcome(k, x) = "added" THEN Append(k, x) ELSE k

\* Toolkit.add: TypeError for what is no ToolCall, ValueError for a name
\* already registered, else a new row.
KitAdd(x) ==
    /\ kitRes' = [op |-> "add", name |-> x, outcome |-> AddOutcome(kit, x)]
    /\ kit' = AddRow(kit, x)
    /\ UNCHANGED <<toolVars, callVars, poolVars, entryVars, dispatchVars, extVars,
                   hiddenVars, kitCalls>>

\* Toolkit.add_tools(a, b): for tool in tools: self.add(tool); the first
\* add that raises ends the loop, with the rows added before it kept.
KitAddTools(a, b) ==
    /\ LET first == AddOutcome(kit, a)
           after == AddRow(kit, a)
       IN  IF first # "added"
           THEN /\ kit' = kit
                /\ kitRes' = [op |-> "add_tools", name |-> a, outcome |-> first]
           ELSE /\ kit' = AddRow(after, b)
                /\ kitRes' = [op |-> "add_tools", name |-> b,
                              outcome |-> AddOutcome(after, b)]
    /\ UNCHANGED <<toolVars, callVars, poolVars, entryVars, dispatchVars, extVars,
                   hiddenVars, kitCalls>>

\* Toolkit.remove: False for a name not registered, else the row is dropped.
KitRemove(n) ==
    /\ kitRes' = [op |-> "remove", name |-> n,
                  outcome |-> IF n \in Registered(kit) THEN "True" ELSE "False"]
    /\ kit' = SelectSeq(kit, LAMBDA x : x # n)
    /\ UNCHANGED <<toolVars, callVars, poolVars, entryVars, dispatchVars, extVars,
                   hiddenVars, kitCalls>>

\* Toolkit.clear: a new empty _tools_df.
KitClear ==
    /\ kit # <<>>
    /\ kit' = <<>>
    /\ kitRes' = [op |-> "clear", name |-> "", outcome |-> "cleared"]
    /\ UNCHANGED <<toolVars, callVars, poolVars, entryVars, dispatchVars, extVars,
                   hiddenVars, kitCalls>>

\* The two entry points that run a tool by name.
KitRunOps == {"run_tool", "async_run_tool"}

\* Toolkit.run_tool / async_run_tool: get_tool(name); ValueError when it
\* gave None; otherwise tool.run / await tool.async_run with the merged
\* arguments, which invokes the tool's handler.
KitRunTool(n, op) ==
    /\ LET tl == GetTool(kit, n)
       IN  IF tl = "none"
           THEN /\ kitRes' = [op |-> op, name |-> n, outcome |-> "ValueError"]
                /\ kitCalls' = kitCalls
           ELSE /\ kitCalls[tl] < MaxRuns
                /\ kitRes' = [op |-> op, name |-> n, outcome |-> "result"]
                /\ kitCalls' = [kitCalls EXCEPT ![tl] = @ + 1]
    /\ kit' = kit
    /\ UNCHANGED <<toolVars, callVars, poolVars, entryVars, dispatchVars, extVars,
                   hiddenVars>>

ToolkitNext ==
    \/ KitClear
    \/ \E x, y \in KitObjects : KitAdd(x) \/ KitAddTools(x, y)
    \/ \E n \in ToolNames :
          \/ KitRemove(n)
          \/ \E op \in KitRunOps : KitRunTool(n, op)

ToolkitSpec == Init /\ [][ToolkitNext]_vars

\* ------------------------------------- threads sharing one Toolkit
\* Each thread adds a tool named after itself, runs it and removes it
\* (test_race_condition_detection). The Toolkit has no lock: a method's
\* reads of self._tools_df and its assignment to it are separate steps
\* between which another thread can run.

\* add, the duplicate test: it reads the frame; ValueError ends the thread's
\* sequence in its except clause.
RaceAddCheck(t) ==
    /\ rpc[t] = "start"
    /\ IF AlreadyRegistered(kit, t)
       THEN /\ rpc' = [rpc EXCEPT ![t] = "done"]
            /\ rout' = [rout EXCEPT ![t] = "error"]
       ELSE /\ rpc' = [rpc EXCEPT ![t] = "add_concat"]
            /\ rout' = rout
    /\ UNCHANGED <<toolVars, callVars, poolVars, entryVars, dispatchVars, gatherVars, equivVars,
                   hiddenVars, toolkitVars, rread>>

\* add: pd.concat([self._tools_df, new_row]) reads the frame again and
\* builds the new one.
RaceAddConcat(t) ==
    /\ rpc[t] = "add_concat"
    /\ rread' = [rread EXCEPT ![t] = Append(kit, t)]
    /\ rpc' = [rpc EXCEPT ![t] = "add_assign"]
    /\ UNCHANGED <<toolVars, callVars, poolVars, entryVars, dispatchVars, gatherVars, equivVars,
                   hiddenVars, toolkitVars, rout>>

\* add: self._tools_df = <the frame built>.
RaceAddAssign(t) ==
    /\ rpc[t] = "add_assign"
    /\ kit' = rread[t]
    /\ rpc' = [rpc EXCEPT ![t] = "run"]
    /\ UNCHANGED <<toolVars, callVars, poolVars, entryVars, dispatchVars, gatherVars, equivVars,
                   hiddenVars, kitCalls, kitRes, rread, rout>>

\* run_tool: get_tool reads the frame; ValueError when the name has no row
\* (the thread's except clause then skips its remove), else the result.
RaceRunTool(t) ==
    /\ rpc[t] = "run"
    /\ IF t \in Registered(kit)
       THEN /\ rpc' = [rpc EXCEPT ![t] = "remove"]
            /\ rout' = [rout EXCEPT ![t] = "result"]
       ELSE /\ rpc' = [rpc EXCEPT ![t] = "done"]
            /\ rout' = [rout EXCEPT ![t] = "error"]
    /\ UNCHANGED <<toolVars, callVars, poolVars, entryVars, dispatchVars, gatherVars, equivVars,
                   hiddenVars, toolkitVars, rread>>

\* remove, the test for the row: it reads the frame; False when there is none.
RaceRemoveCheck(t) ==
    /\ rpc[t] = "remove"
    /\ rpc' = [rpc EXCEPT ![t] = IF t \in Registered(kit)
                                   THEN "rm_filter" ELSE "done"]
    /\ UNCHANGED <<toolVars, callVars, poolVars, entryVars, dispatchVars, gatherVars, equivVars,
                   hiddenVars, toolkitVars, rread, rout>>

\* remove: self._tools_df[self._tools_df["name"] != name] reads the frame
\* again and builds the one without the row.
RaceRemoveFilter(t) ==
    /\ rpc[t] = "rm_filter"
    /\ rread' = [rread EXCEPT ![t] = SelectSeq(kit, LAMBDA n : n # t)]
    /\ rpc' = [rpc EXCEPT ![t] = "rm_assign"]
    /\ UNCHANGED <<toolVars, callVars, poolVars, entryVars, dispatchVars, gatherVars, equivVars,
                   hiddenVars, toolkitVars, rout>>

\* remove: self._tools_df = <the frame built>; return True.
RaceRemoveAssign(t) ==
    /\ rpc[t] = "rm_assign"
    /\ kit' = rread[t]
    /\ rpc' = [rpc EXCEPT ![t] = "done"]
    /\ UNCHANGED <<toolVars, callVars, poolVars, entryVars, dispatchVars, gatherVars, equivVars,
                   hiddenVars, kitCalls, kitRes, rread, rout>>

RaceNext ==
    \E t \in Racers :
       \/ RaceAddCheck(t)
       \/ RaceAddConcat(t)
       \/ RaceAddAssign(t)
       \/ RaceRunTool(t)
       \/ RaceRemoveCheck(t)
       \/ RaceRemoveFilter(t)
       \/ RaceRemoveAssign(t)

RaceSpec == Init /\ [][RaceNext]_vars

\* ------------------- async_run calls of one retrying tool on one loop
\* tool_call(retry=True, raise_for_exception=True, max_timeout=...,
\* max_backoff=...) on a coroutine handler, several async_run calls of it
\* gathered on one loop (test_async_retry_mixed_success_failure). The
\* handler takes no time; each of its runs raises or returns.

\* attempt += 1 acts on the local of the call's own coroutine frame.
NextAttemptShared(att, c) == [d \in DOMAIN att |-> att[d] + 1]

NextAttempt(att, c) == [att EXCEPT ![c] = @ + 1]

\* await asyncio.sleep(backoff) gives the loop back: a sleeping call keeps
\* no other task from running.
SleepBlocksLoop(pcs) == \E c \in DOMAIN pcs : pcs[c] = "sleeping"

SleepBlocks(pcs) == FALSE

\* The decorator is applied: the tool exists with its two limits.
GatherConfigure ==
    /\ gtool = NoConfig
    /\ \E cf \in GatherConfigs : gtool' = cf
    /\ UNCHANGED <<toolVars, callVars, poolVars, entryVars, dispatchVars,
                   hiddenVars, toolkitVars, raceVars, equivVars,
                   gnow, gpc, gattempt, gstart, gwake, gdelays, ginv>>

\* async_run, up to the loop: start_time = time.monotonic(); attempt = 0.
GatherStart(c) ==
    /\ gtool # NoConfig
    /\ gpc[c] = "pending"
    /\ ~SleepBlocks(gpc)
    /\ gstart' = [gstart EXCEPT ![c] = gnow]
    /\ gattempt' = [gattempt EXCEPT ![c] = 0]
    /\ gpc' = [gpc EXCEPT ![c] = "ready"]
    /\ UNCHANGED <<toolVars, callVars, poolVars, entryVars, dispatchVars,
                   hiddenVars, toolkitVars, raceVars, equivVars,
                   gtool, gnow, gwake, gdelays, ginv>>

\* One pass of async_run's loop body: the handler runs and returns, or
\* raises and the except clause re-raises when the budget is spent and
\* otherwise computes the backoff and goes into asyncio.sleep.
GatherAttempt(c) ==
    /\ gpc[c] = "ready"
    /\ ~SleepBlocks(gpc)
    /\ ginv' = [ginv EXCEPT ![c] = @ + 1]
    /\ \E ok \in BOOLEAN :
          IF ok
          THEN /\ gpc' = [gpc EXCEPT ![c] = "returned"]
               /\ UNCHANGED <<gwake, gdelays>>
          ELSE IF BudgetExhausted(Elapsed(gnow, gstart[c]), gtool.max_timeout)
          THEN /\ gpc' = [gpc EXCEPT ![c] = "raised"]
               /\ UNCHANGED <<gwake, gdelays>>
          ELSE LET b == Backoff(gattempt[c], gtool.max_backoff)
               IN  /\ gpc' = [gpc EXCEPT ![c] = "sleeping"]
                   /\ gwake' = [gwake EXCEPT ![c] = gnow + b]
                   /\ gdelays' = [gdelays EXCEPT ![c] = Append(@, b)]
    /\ UNCHANGED <<toolVars, callVars, poolVars, entryVars, dispatchVars,
                   hiddenVars, toolkitVars, raceVars, equivVars,
                   gtool, gnow, gattempt, gstart>>

\* The sleep's timer has come due and the loop resumes the call:
\* attempt += 1 and the next pass.
GatherWake(c) ==
    /\ gpc[c] = "sleeping"
    /\ gnow >= gwake[c]
    /\ gattempt' = NextAttempt(gattempt, c)
    /\ gpc' = [gpc EXCEPT ![c] = "ready"]
    /\ UNCHANGED <<toolVars, callVars, poolVars, entryVars, dispatchVars,
                   hiddenVars, toolkitVars, raceVars, equivVars,
                   gtool, gnow, gstart, gwake, gdelays, ginv>>

\* Whether the loop has a step of the call to run now.
Runnable(c) == gpc[c] = "ready" \/ (gpc[c] = "sleeping" /\ gnow >= gwake[c])

\* Time passes: the loop runs what is ready before it waits for a timer,
\* and the handler takes no time.
GatherTick ==
    /\ gtool # NoConfig
    /\ gnow < MaxClock
    /\ \A c \in Retriers : ~Runnable(c)
    /\ gnow' = gnow + 1
    /\ UNCHANGED <<toolVars, callVars, poolVars, entryVars, dispatchVars,
                   hiddenVars, toolkitVars, raceVars, equivVars,
                   gtool, gpc, gattempt, gstart, gwake, gdelays, ginv>>

GatherNext ==
    \/ GatherConfigure
    \/ GatherTick
    \/ \E c \in Retriers :
          \/ GatherStart(c)
          \/ GatherAttempt(c)
          \/ GatherWake(c)

GatherSpec == Init /\ [][GatherNext]_vars

\* ================================= one pool entry and its loop, mcp.py
\* loop.call_soon / call_soon_threadsafe: the handle joins _ready's end.
CallSoon(l, h) == [l EXCEPT !.ready = Append(@, h)]

\* asyncio.run_coroutine_threadsafe(coro, self.loop), all a caller's thread
\* does to the loop: call_soon_threadsafe of the callback that will make
\* the task, on the loop's thread.
SubmitStopsLoop(l, t) == [l EXCEPT !.stopping = TRUE]

Submit(l, t) == CallSoon(l, Handle("start", t))

\* The loop with the handle at the head of _ready taken off to be run.
Popped == [loop EXCEPT !.ready = Tail(@), !.todo = @ - 1]

\* Whether the loop is about to run a handle of the given kind.
Running(kind) ==
    /\ loop.state = "running"
    /\ loop.todo > 0
    /\ Head(loop.ready).kind = kind

\* The coroutine a task runs: _open, _shutdown (scheduled by close, also
\* by the constructor's close), or _call_tool / _list_tools.
KindOf(k) ==
    IF k = OpenTask THEN "open"
    ELSE IF cop[k] \in {"close", "init"} THEN "shutdown"
    ELSE cop[k]

\* run_forever: the next _run_once starts; it runs the handles that are
\* in _ready now, and those added meanwhile wait for the iteration after.
RunOnce ==
    /\ loop.state = "running"
    /\ loop.todo = 0
    /\ ~loop.stopping
    /\ loop.ready # <<>>
    /\ loop' = [loop EXCEPT !.todo = Len(loop.ready)]
    /\ UNCHANGED <<libVars, toolVars, callVars, poolVars, dispatchVars, pool, task, cfut, cpc, cop, cres,
                   built, exits>>

\* run_forever: after a _run_once, if self._stopping: break. What is
\* still in _ready stays there.
RunForeverExit ==
    /\ loop.state = "running"
    /\ loop.todo = 0
    /\ loop.stopping
    /\ loop' = [loop EXCEPT !.state = "stopped"]
    /\ UNCHANGED <<libVars, toolVars, callVars, poolVars, dispatchVars, pool, task, cfut, cpc, cop, cres,
                   built, exits>>

\* run_coroutine_threadsafe's callback: ensure_future(coro) makes the task
\* and call_soon's its first step.
RunStart ==
    /\ Running("start")
    /\ LET k == Head(loop.ready).id
       IN  /\ task' = [task EXCEPT ![k] = "new"]
           /\ loop' = CallSoon(Popped, Handle("step", k))
    /\ UNCHANGED <<libVars, toolVars, callVars, poolVars, dispatchVars, pool, cfut, cpc, cop, cres,
                   built, exits>>

\* The done-callback of a finished task sets its concurrent future.
RunDeliver ==
    /\ Running("deliver")
    /\ cfut' = [cfut EXCEPT ![Head(loop.ready).id] = "done"]
    /\ loop' = Popped
    /\ UNCHANGED <<libVars, toolVars, callVars, poolVars, dispatchVars, pool, task, cpc, cop, cres,
                   built, exits>>

\* What a task was waiting for has happened (the transport answered, or a
\* wait_for ran out): the selector hands the task's next step to the loop.
IoResults == {"io_ok", "io_fail"}

IoComplete(k) ==
    /\ loop.state = "running"
    /\ task[k] = "io"
    /\ \E r \in IoResults : task' = [task EXCEPT ![k] = r]
    /\ loop' = CallSoon(loop, Handle("step", k))
    /\ UNCHANGED <<libVars, toolVars, callVars, poolVars, dispatchVars, pool, cfut, cpc, cop, cres,
                   built, exits>>

\* The caller awaiting a call's wrapped future is cancelled while the
\* request is out: the cancellation is chained to the task, on the loop's
\* thread, and the task's next step has CancelledError raised at its await.
CancelCall(t) ==
    /\ loop.state = "running"
    /\ cop[t] \in SessionOps
    /\ cpc[t] = "await"
    /\ task[t] = "io"
    /\ task' = [task EXCEPT ![t] = "io_cancel"]
    /\ loop' = CallSoon(loop, Handle("step", t))
    /\ UNCHANGED <<libVars, toolVars, callVars, poolVars, dispatchVars, pool, cfut, cpc, cop, cres,
                   built, exits>>

\* A step of _open. Its awaits (transport, session, handshake, each under
\* wait_for) are one wait here; the finally sets _init_ok and _ready and,
\* if not ok, stops the loop.
OpenStep ==
    /\ Running("step")
    /\ KindOf(Head(loop.ready).id) = "open"
    /\ CASE task[OpenTask] = "new" ->
              /\ task' = [task EXCEPT ![OpenTask] = "io"]
              /\ loop' = Popped
              /\ pool' = pool
         [] task[OpenTask] = "io_ok" ->
              /\ task' = [task EXCEPT ![OpenTask] = "done"]
              /\ loop' = Popped
              /\ pool' = [pool EXCEPT !.ready = TRUE, !.init_ok = TRUE,
                                      !.lock = "made", !.sess_ctx = "entered"]
         [] OTHER ->
              /\ task' = [task EXCEPT ![OpenTask] = "done"]
              /\ loop' = [Popped EXCEPT !.stopping = TRUE]
              /\ pool' = [pool EXCEPT !.ready = TRUE, !.init_ok = FALSE]
    /\ UNCHANGED <<libVars, toolVars, callVars, poolVars, dispatchVars, cfut, cpc, cop, cres, built,
                   exits>>

\* asyncio.Lock.acquire takes the lock at once only if it is not locked and
\* nobody is queued for it.
LockFreeAlways(p) == TRUE

LockFree(p) == p.holder = NoTask /\ p.waiters = <<>>

\* A lock whose release does nothing.
ReleaseKeeps(p) == p

\* asyncio.Lock.release: unlocked; the first waiter, if any, is woken (its
\* step is call_soon'ed) and stays queued until it runs.
Release(p) == [p EXCEPT !.holder = NoTask]

Woken(tk, p) ==
    IF p.waiters = <<>> THEN tk ELSE [tk EXCEPT ![Head(p.waiters)] = "woken"]

WakeFirst(l, p) ==
    IF p.waiters = <<>> THEN l ELSE CallSoon(l, Handle("step", Head(p.waiters)))

\* How a _call_tool / _list_tools task ends after the session's call:
\* with the call's result, or, the coroutine having no except clause, with
\* the exception the session raised.
TaskEndSwallows(r) == "done"

TaskEnd(r) == IF r = "io_ok" THEN "done" ELSE "failed"

\* What awaiting the wrapped future gives the caller: the task's result, or
\* the task's exception raised.
Awaited(st) == IF st = "failed" THEN "error" ELSE "result"

\* A step of _call_tool / _list_tools: the assert, async with self._lock,
\* the await of the session's call, the release at the end of the block.
\* A failed assert ends the task with its AssertionError.
SessionStep ==
    /\ Running("step")
    /\ KindOf(Head(loop.ready).id) \in SessionOps
    /\ LET k == Head(loop.ready).id
       IN  CASE task[k] = "new" /\ pool.lock = "none" ->
                  /\ task' = [task EXCEPT ![k] = "failed"]
                  /\ loop' = CallSoon(Popped, Handle("deliver", k))
                  /\ pool' = pool
             [] task[k] = "new" /\ pool.lock # "none" /\ LockFree(pool) ->
                  /\ task' = [task EXCEPT ![k] = "io"]
                  /\ loop' = Popped
                  /\ pool' = [pool EXCEPT !.holder = k]
             [] task[k] = "new" /\ pool.lock # "none" /\ ~LockFree(pool) ->
                  /\ task' = [task EXCEPT ![k] = "lockwait"]
                  /\ loop' = Popped
                  /\ pool' = [pool EXCEPT !.waiters = Append(@, k)]
             [] task[k] = "woken" ->
                  /\ task' = [task EXCEPT ![k] = "io"]
                  /\ loop' = Popped
                  /\ pool' = [pool EXCEPT !.holder = k, !.waiters = Tail(@)]
             [] OTHER ->
                  /\ task' = [Woken(task, pool) EXCEPT ![k] = TaskEnd(task[k])]
                  /\ loop' = CallSoon(WakeFirst(Popped, pool), Handle("deliver", k))
                  /\ pool' = Release(pool)
    /\ UNCHANGED <<libVars, toolVars, callVars, poolVars, dispatchVars, cfut, cpc, cop, cres, built,
                   exits>>

\* A step of close's _shutdown: the two __aexit__ calls may finish within
\* the step or wait for the transport; the finally stops the loop. The
\* task ends in the very step that calls loop.stop(), so its done-callback
\* is call_soon'ed for an iteration that run_forever no longer starts.
ShutdownStep ==
    /\ Running("step")
    /\ KindOf(Head(loop.ready).id) = "shutdown"
    /\ LET k == Head(loop.ready).id
       IN  \/ /\ task[k] = "new"
              /\ task' = [task EXCEPT ![k] = "io"]
              /\ loop' = Popped
              /\ UNCHANGED <<pool, exits>>
           \/ /\ task[k] \in {"new", "io_ok", "io_fail"}
              /\ task' = [task EXCEPT ![k] = "done"]
              /\ loop' = [CallSoon(Popped, Handle("deliver", k))
                             EXCEPT !.stopping = TRUE]
              /\ pool' = [pool EXCEPT !.sess_ctx =
                                 IF @ = "entered" THEN "exited" ELSE @]
              /\ exits' = exits + 1
    /\ UNCHANGED <<libVars, toolVars, callVars, poolVars, dispatchVars, cfut, cpc, cop, cres, built>>

\* __init__: self._ready.wait(timeout=10) returned True. With _init_ok
\* the constructor returns the object; without it calls self.close().
ReadyWait(t) ==
    /\ cpc[t] = "ready_wait"
    /\ pool.ready
    /\ IF pool.init_ok
       THEN /\ built' = TRUE
            /\ cpc' = [cpc EXCEPT ![t] = "idle"]
            /\ cop' = [cop EXCEPT ![t] = "none"]
            /\ cres' = [cres EXCEPT ![t] = "constructed"]
       ELSE /\ cpc' = [cpc EXCEPT ![t] = "cl_check"]
            /\ UNCHANGED <<built, cop, cres>>
    /\ UNCHANGED <<libVars, toolVars, callVars, poolVars, dispatchVars, loop, pool, task, cfut, exits>>

\* __init__: the ten seconds ran out with _ready not set; self.close().
ReadyTimeout(t) ==
    /\ cpc[t] = "ready_wait"
    /\ ~pool.ready
    /\ cpc' = [cpc EXCEPT ![t] = "cl_check"]
    /\ UNCHANGED <<libVars, toolVars, callVars, poolVars, dispatchVars, loop, pool, task, cfut, cop, cres,
                   built, exits>>

\* if self._closed.is_set(), as call_tool_async and list_tools_async ask.
ConnectionClosedNever(p) == FALSE

ConnectionClosed(p) == p.closed

\* call_tool_async / list_tools_async: with the closed flag set the call
\* raises RuntimeError("MCP connection is closed"); otherwise the
\* coroutine goes to the loop and the caller awaits the wrapped future.
SessionCallAsync(t, op) ==
    /\ built
    /\ cpc[t] = "idle"
    /\ IF ConnectionClosed(pool)
       THEN /\ cres' = [cres EXCEPT ![t] = "closed_error"]
            /\ UNCHANGED <<loop, cfut, cpc, cop>>
       ELSE /\ cop' = [cop EXCEPT ![t] = op]
            /\ cfut' = [cfut EXCEPT ![t] = "pending"]
            /\ loop' = Submit(loop, t)
            /\ cpc' = [cpc EXCEPT ![t] = "await"]
            /\ cres' = [cres EXCEPT ![t] = "none"]
    /\ UNCHANGED <<libVars, toolVars, callVars, poolVars, dispatchVars, pool, task, built, exits>>

\* A thread that holds the object calls close().
CloseCall(t) ==
    /\ built
    /\ cpc[t] = "idle"
    /\ cpc' = [cpc EXCEPT ![t] = "cl_check"]
    /\ cop' = [cop EXCEPT ![t] = "close"]
    /\ cres' = [cres EXCEPT ![t] = "none"]
    /\ UNCHANGED <<libVars, toolVars, callVars, poolVars, dispatchVars, loop, pool, task, cfut, built,
                   exits>>

\* close() is over for the thread: a caller of close() has its return; the
\* constructor goes on to raise its RuntimeError.
CloseDone(t) ==
    /\ cpc' = [cpc EXCEPT ![t] = "idle"]
    /\ cres' = [cres EXCEPT ![t] = IF cop[t] = "init" THEN "RuntimeError"
                                   ELSE "returned"]
    /\ cop' = [cop EXCEPT ![t] = "none"]

\* close(): if self._closed.is_set(): return
CloseFlag(t) ==
    /\ cpc[t] = "cl_check"
    /\ IF pool.closed
       THEN CloseDone(t)
       ELSE /\ cpc' = [cpc EXCEPT ![t] = "cl_lock"]
            /\ UNCHANGED <<cop, cres>>
    /\ UNCHANGED <<libVars, toolVars, callVars, poolVars, dispatchVars, loop, pool, task, cfut, built,
                   exits>>

\* close(): with self._close_lock, the second test of the flag, then
\* fut = run_coroutine_threadsafe(_shutdown(), self.loop); the thread goes
\* into fut.result(), which has no timeout.
CloseLocked(t) ==
    /\ cpc[t] = "cl_lock"
    /\ pool.close_lock = NoThread
    /\ IF pool.closed
       THEN /\ CloseDone(t)
            /\ UNCHANGED <<loop, pool, cfut>>
       ELSE /\ pool' = [pool EXCEPT !.close_lock = t]
            /\ cfut' = [cfut EXCEPT ![t] = "pending"]
            /\ loop' = Submit(loop, t)
            /\ cpc' = [cpc EXCEPT ![t] = "cl_wait"]
            /\ UNCHANGED <<cop, cres>>
    /\ UNCHANGED <<libVars, toolVars, callVars, poolVars, dispatchVars, task, built, exits>>

\* The thread's future is done. In close(): fut.result() returns, then
\* self.thread.join(timeout=2), self._closed.set(), and the with block
\* releases _close_lock. In a session call the awaiting caller resumes
\* with the task's result or with its exception.
FutResult(t) ==
    /\ cfut[t] = "done"
    /\ cfut' = [cfut EXCEPT ![t] = "none"]
    /\ IF cpc[t] = "cl_wait"
       THEN /\ pool' = [pool EXCEPT !.closed = TRUE, !.close_lock = NoThread]
            /\ CloseDone(t)
       ELSE /\ cpc' = [cpc EXCEPT ![t] = "idle"]
            /\ cres' = [cres EXCEPT ![t] = Awaited(task[t])]
            /\ cop' = [cop EXCEPT ![t] = "none"]
            /\ pool' = pool
    /\ UNCHANGED <<libVars, toolVars, callVars, poolVars, dispatchVars, loop, task, built, exits>>

\* Code that holds the object sets its closed flag (pool._closed.set()),
\* as the tests do.
SetClosedFlag ==
    /\ built
    /\ ~pool.closed
    /\ pool' = [pool EXCEPT !.closed = TRUE]
    /\ UNCHANGED <<libVars, toolVars, callVars, poolVars, dispatchVars, loop, task, cfut, cpc, cop, cres,
                   built, exits>>

\* What the entry's background thread does: _loop_thread's run_forever
\* and everything the loop runs, the coroutines' steps included.
LoopThreadStep ==
    \/ RunOnce
    \/ RunForeverExit
    \/ RunStart
    \/ RunDeliver
    \/ OpenStep
    \/ SessionStep
    \/ ShutdownStep
    \/ \E k \in Tasks : IoComplete(k)
    \/ \E t \in Threads : CancelCall(t)

EntryNext ==
    \/ RunOnce
    \/ RunForeverExit
    \/ RunStart
    \/ RunDeliver
    \/ OpenStep
    \/ SessionStep
    \/ ShutdownStep
    \/ \E k \in Tasks : IoComplete(k)
    \/ \E t \in Threads : CancelCall(t)
    \/ \E t \in Threads :
          \/ ReadyWait(t)
          \/ ReadyTimeout(t)
          \/ \E op \in SessionOps : SessionCallAsync(t, op)
          \/ CloseCall(t)
          \/ CloseFlag(t)
          \/ CloseLocked(t)
          \/ FutResult(t)
    \/ SetClosedFlag

EntrySpec == Init /\ [][EntryNext]_vars

\* What the runtime guarantees: the loop thread keeps running run_forever
\* while it may, the transport answers or its wait_for runs out, and a
\* thread that can take its next step inside __init__ or close() takes it.
\* Nothing obliges a caller to start a new operation.
LoopProgress ==
    RunOnce \/ RunForeverExit \/ RunStart \/ RunDeliver \/ OpenStep
        \/ SessionStep \/ ShutdownStep

ThreadProgress(t) ==
    ReadyWait(t) \/ ReadyTimeout(t) \/ CloseFlag(t) \/ CloseLocked(t)
        \/ FutResult(t)

EntryFairSpec ==
    /\ EntrySpec
    /\ WF_vars(LoopProgress)
    /\ \A k \in Tasks : WF_vars(IoComplete(k))
    /\ \A t \in Threads : WF_vars(ThreadProgress(t))

\* ================================================================ claims
Done == callPc \in {"returned", "raised"}

\* min(0.1 * 2^k, max_backoff), written out.
CappedDelay(k, maxBackoff) ==
    IF BaseDelay * (2 ^ k) < maxBackoff THEN BaseDelay * (2 ^ k) ELSE maxBackoff

\* The partial sum of the first n capped delays.
RECURSIVE SumCapped(_, _)
SumCapped(n, maxBackoff) ==
    IF n = 0 THEN 0 ELSE SumCapped(n - 1, maxBackoff) + CappedDelay(n - 1, maxBackoff)

\* C1: constructing with retry=True and raise_for_exception=False fails at
\* once with ValueError whatever max_timeout, max_backoff and concurrent are,
\* and produces no tool; every constructed tool satisfies retry =>
\* raise_for_exception, and a call only ever runs on such a tool.
C1_RetryRequiresRaise ==
    /\ (ctorError # "pending" /\ ctorArgs.retry /\ ~ctorArgs.raise_for_exception)
          => (ctorError = "ValueError" /\ ~tool.built)
    /\ (ctorError # "pending" /\ ~(ctorArgs.retry /\ ~ctorArgs.raise_for_exception))
          => (ctorError = "none" /\ tool.built)
    /\ tool.built => (tool.retry => tool.raise_for_exception)
    /\ callPc # "idle" => (ctorError = "none" /\ tool.built
                           /\ (tool.retry => tool.raise_for_exception))

C1_Witness ==
    /\ ctorError = "ValueError"
    /\ ctorArgs.retry /\ ~ctorArgs.raise_for_exception
    /\ ctorArgs.max_timeout = 10 /\ ctorArgs.max_backoff = NoneArg
    /\ ctorArgs.concurrent

\* C2: in a retrying call the sleep after the k-th failed attempt (k = 0, 1,
\* ...) lasts exactly min(0.1 * 2^k, max_backoff); the time slept after k
\* failures is the partial sum of that capped sequence and no sleep exceeds
\* max_backoff.
C2_BackoffSequence ==
    Retrying =>
        /\ Len(delays) = attempt
        /\ \A k \in 1..Len(delays) :
              /\ delays[k] = CappedDelay(k - 1, tool.max_backoff)
              /\ delays[k] <= tool.max_backoff
        /\ callPc = "sleeping" =>
              /\ backoff = CappedDelay(failures - 1, tool.max_backoff)
              /\ Len(delays) = failures - 1
        /\ (now - start_time) - busy = SumCapped(Len(delays), tool.max_backoff)

C2_Witness ==
    /\ Retrying
    /\ Len(delays) = 4
    /\ delays = <<1, 2, 4, 5>>
    /\ tool.max_backoff = 5

\* C3: a retrying call whose handler fails f times and then succeeds invokes
\* the handler f+1 times, sleeps f times, and returns the handler's result
\* with no sleep after it, whatever the value; for f = 0 one invocation and
\* no sleep.
C3_SuccessEndsLoop ==
    (Retrying /\ callPc = "returned") =>
        /\ invocations = failures + 1
        /\ Len(delays) = failures
        /\ outcome = Return(lastRet)
        /\ now = start_time + busy + SumCapped(failures, tool.max_backoff)
        /\ failures = 0 => (invocations = 1 /\ delays = <<>>)

C3_Witness ==
    /\ Retrying /\ callPc = "returned"
    /\ failures = 2 /\ invocations = 3 /\ Len(delays) = 2
    /\ outcome = Return("")

\* C4: when a retrying call gives up (its last attempt failed and elapsed >=
\* max_timeout) the caller gets the very exception the handler raised: same
\* type and message, not wrapped, not a timeout error, not a string result.
C4_OriginalException ==
    (Retrying /\ Done /\ invocations = failures) =>
        /\ callPc = "raised"
        /\ outcome = Raise(lastErr)
        /\ lastErr \in Errors
        /\ now - start_time >= tool.max_timeout

C4_Witness ==
    /\ Retrying /\ callMode = "async_run" /\ callPc = "raised"
    /\ failures = 4
    /\ outcome.err = [type |-> "ConnectionError", msg |-> "boom"]

\* The retry loop's run fits the attempts the model follows: the sleeps of
\* MaxAttempts - 1 failures alone use up the budget.
FitsAttempts ==
    SumCapped(MaxAttempts - 1, tool.max_backoff) >= tool.max_timeout

\* C5: with a finite max_timeout and max_backoff > 0 a retrying call ends
\* after finitely many attempts, by raising when every attempt failed; with
\* instantaneous attempts, max_timeout = 1 and max_backoff = 0.5 it raises on
\* the 5th attempt after sleeping 0.1 + 0.2 + 0.4 + 0.5.
C5_Ends ==
    (Retrying /\ tool.max_backoff > 0 /\ FitsAttempts) ~> Done

C5_RaisesOnFifth ==
    /\ (Retrying /\ Done /\ invocations = failures) => callPc = "raised"
    /\ (Retrying /\ tool.max_timeout = 10 /\ tool.max_backoff = 5 /\ busy = 0) =>
          /\ invocations <= 5
          /\ (Done /\ invocations = failures) =>
                (invocations = 5 /\ delays = <<1, 2, 4, 5>>)

C5_Terminates == C5_Ends /\ []C5_RaisesOnFifth

C5_Witness ==
    /\ Retrying /\ callPc = "raised"
    /\ tool.max_timeout = 10 /\ tool.max_backoff = 5 /\ busy = 0
    /\ invocations = 5 /\ failures = 5

\* C6: the budget is tested only after a failed attempt; a sleep starts only
\* when that test saw elapsed < max_timeout and the call raises only when
\* elapsed >= max_timeout; so with attempts of at most MaxLatency the call
\* ends within max_timeout + max_backoff + MaxLatency, and with
\* max_timeout = 0 it makes one attempt and never sleeps.
C6_BudgetBound ==
    Retrying =>
        /\ callPc = "sleeping" => now - start_time < tool.max_timeout
        /\ callPc = "raised" => now - start_time >= tool.max_timeout
        /\ now - start_time <= tool.max_timeout + tool.max_backoff + MaxLatency
        /\ tool.max_timeout = 0 =>
              /\ callPc # "sleeping"
              /\ delays = <<>>
              /\ invocations <= 1
              /\ Done => invocations = 1

C6_Witness ==
    /\ Retrying /\ callPc = "raised"
    /\ tool.max_timeout = 10 /\ tool.max_backoff = 5
    /\ now - start_time = 14 + MaxLatency

CreatedFor(u) == {e \in 1..(nextEntry - 1) : entry[e].url = u}

\* C8: threads calling _get_pool concurrently for a url that has no entry
\* (and from which nothing is removed meanwhile) construct exactly one
\* entry; every caller gets that entry and the registry holds only it.
C8_SingleEntryPerUrl ==
    \A u \in Urls : ~removedEver[u] =>
        /\ Cardinality(CreatedFor(u)) <= 1
        /\ registry[u] # NoEntry => CreatedFor(u) = {registry[u]}
        /\ \A t \in Threads :
              /\ (tpc[t] = "gp_return" /\ turl[t] = u) =>
                    (tpool[t] # NoEntry /\ CreatedFor(u) = {tpool[t]}
                     /\ registry[u] = tpool[t])
              /\ (got[t] # NoEntry /\ entry[got[t]].url = u) =>
                    (CreatedFor(u) = {got[t]} /\ registry[u] = got[t])

C8_Witness ==
    \E t1, t2 \in Threads :
        /\ t1 # t2
        /\ got[t1] # NoEntry
        /\ got[t1] = got[t2]
        /\ ~removedEver[entry[got[t1]].url]
        /\ registry[entry[got[t1]].url] = got[t1]

\* C9: _get_pool never returns the entry it found closed at its lookup: a
\* closed registered entry is evicted, and a fresh entry is constructed,
\* stored under the url and returned; the closed one is out of the registry.
C9_ClosedEntryReplaced ==
    \A t \in Threads : tpc[t] = "gp_return" =>
        /\ tpool[t] # NoEntry
        /\ registry[turl[t]] = tpool[t]
        /\ (tfound[t] # NoEntry /\ ~tfoundClosed[t]) => tpool[t] = tfound[t]
        /\ tfoundClosed[t] =>
              /\ tpool[t] # tfound[t]
              /\ tpool[t] > tfound[t]
              /\ entry[tpool[t]].state = "ready"
              /\ entry[tpool[t]].url = turl[t]
              /\ \A u \in Urls : registry[u] # tfound[t]

C9_Witness ==
    \E t \in Threads :
        /\ tpc[t] = "gp_return"
        /\ tfoundClosed[t]
        /\ entry[tfound[t]].closed
        /\ registry[turl[t]] = tpool[t]

\* C10: over any number of close_mcp_url calls, from one thread or several,
\* an entry's close() is entered once; the entry is then out of the
\* registry, and a call that finds no entry for its url (already closed, or
\* never registered) changes nothing and returns.
C10_AtMostOnce ==
    \A e \in Entries :
        /\ urlCloses[e] <= 1
        /\ urlCloses[e] = 1 => \A u \in Urls : registry[u] # e

C10_NoOpStep ==
    \A t \in Threads, u \in Urls :
        (CloseUrl(t, u) /\ registry[u] = NoEntry) =>
            /\ tpc'[t] = "idle"
            /\ UNCHANGED <<regVars, urlCloses, removedEver, got, tpool>>

C10_CloseOncePerEntry == []C10_AtMostOnce /\ [][C10_NoOpStep]_vars

C10_Witness ==
    \E e \in Entries :
        /\ urlCloses[e] = 1
        /\ lateNoop
        /\ registry[entry[e].url] = NoEntry

\* A thread inside close() that can never leave it: it waits in
\* fut.result() for a future that is not done while the loop that would
\* complete it has left run_forever, or it waits for _close_lock held by
\* such a thread.
InClose(t) == cpc[t] \in {"cl_check", "cl_lock", "cl_wait"}

WaitsOnDeadLoop(t) ==
    cpc[t] = "cl_wait" /\ cfut[t] # "done" /\ loop.state = "stopped"

Hung(t) ==
    \/ WaitsOnDeadLoop(t)
    \/ /\ cpc[t] = "cl_lock"
       /\ pool.close_lock # NoThread
       /\ WaitsOnDeadLoop(pool.close_lock)

\* C11: close() is idempotent: over any number of close() calls on one
\* entry, from one thread or several, _shutdown runs once, and no call is
\* left unable to return.
C11_CloseIdempotent ==
    /\ exits <= 1
    /\ \A t \in Threads : cop[t] = "close" => ~Hung(t)

\* C12: every invocation of close(), the constructor's included, returns
\* to its caller in the end.
C12_CloseReturns ==
    \A t \in Threads : InClose(t) ~> ~InClose(t)

\* C13: a construction whose _open failed or whose readiness wait timed
\* out ends with the constructor raising its RuntimeError: the
\* constructing thread is never left waiting inside its own close().
C13_FailedInitRaises ==
    \A t \in Threads :
        (cop[t] = "init" /\ InClose(t)) => ~WaitsOnDeadLoop(t)

\* C14: the registry holds only entries whose constructor returned: none
\* that is initializing or failed; and a _get_pool whose construction
\* failed leaves no entry for its url and gives the registry lock back.
C14_OnlyBuiltRegistered ==
    \A u \in Urls :
        registry[u] # NoEntry => entry[registry[u]].state = "ready"

C14_RegistryClean ==
    /\ []C14_OnlyBuiltRegistered
    /\ \A t \in Threads : (regLock = t) ~> (regLock # t)

\* C15: on one entry at most one call_tool / list_tools request is in
\* flight on the session at any time, and the task whose request it is
\* holds the entry's ordering lock.
InFlight == {k \in Threads : cop[k] \in SessionOps /\ task[k] = "io"}

C15_OneInFlight ==
    /\ Cardinality(InFlight) <= 1
    /\ \A k \in InFlight : pool.holder = k

C15_Witness ==
    \E k1, k2 \in Threads :
        /\ k1 \in InFlight
        /\ cop[k1] = "call_tool"
        /\ cop[k2] = "list_tools"
        /\ task[k2] = "lockwait"
        /\ pool.waiters = <<k2>>

\* C16: a set closed flag stays set, so the entry is never Ready again, and
\* every call_tool_async / list_tools_async made with the flag set raises
\* "MCP connection is closed" and leaves the loop, the tasks, the futures
\* and the session as they were.
Ready(p) == p.ready /\ p.init_ok /\ ~p.closed

C16_ClosedStep ==
    /\ pool.closed => pool'.closed /\ ~Ready(pool')
    /\ \A t \in Threads, op \in SessionOps :
          (pool.closed /\ SessionCallAsync(t, op)) =>
              /\ cres'[t] = "closed_error"
              /\ UNCHANGED <<loop, pool, task, cfut, cpc, cop>>

C16_ClosedIsFinal == [][C16_ClosedStep]_vars

C16_Witness ==
    \E t \in Threads :
        /\ pool.closed
        /\ cres[t] = "closed_error"
        /\ cpc[t] = "idle"

\* The calls whose handler has started and not returned.
ExecutingNow == {i \in Calls : Executing(i)}

AllDone == \A i \in Calls : dcall[i] = "done"

Gathered == dmode = "gather"

\* C17: calls of a concurrent tool gathered on one loop overlap: no handler
\* ever runs in the loop's thread, every handler has started before any
\* time passes, and all calls are done once one handler latency has
\* passed, not NumCalls times that; for blocking and non-blocking handlers.
C17_ConcurrentOverlap ==
    (Gathered /\ tool.concurrent) =>
        /\ LoopFree
        /\ dnow > 0 => \A i \in Calls : dcall[i] # "pending"
        /\ dnow <= HandlerLatency
        /\ AllDone => dnow = HandlerLatency

C17_Witness ==
    /\ Gathered
    /\ tool.concurrent
    /\ tool.func = "Blocking"
    /\ dnow > 0
    /\ \A i \in Calls : dcall[i] = "worker" /\ dleft[i] > 0

\* C18: gathered calls of a blocking handler with concurrent=False run one
\* after another in dispatch order: at most one handler executes, call k+1
\* has not started unless call k is done, the whole takes NumCalls handler
\* latencies, and while a handler executes the loop takes no task from its
\* ready queue.
C18_Serial ==
    (Gathered /\ ~tool.concurrent /\ tool.func = "Blocking") =>
        /\ Cardinality(ExecutingNow) <= 1
        /\ \A k \in Calls :
              (k + 1 \in Calls /\ dcall[k + 1] # "pending") => dcall[k] = "done"
        /\ AllDone => dnow = NumCalls * HandlerLatency

C18_LoopHeld ==
    (\E i \in Calls : dcall[i] = "handler") => dready' = dready

C18_InlineBlockingSequential == []C18_Serial /\ [][C18_LoopHeld]_vars

C18_Witness ==
    /\ Gathered
    /\ ~tool.concurrent
    /\ dcall[1] = "done"
    /\ dcall[2] = "handler"
    /\ dleft[2] < HandlerLatency
    /\ dcall[NumCalls] = "pending"

\* C19 as stated: no two executions of a concurrent=False tool's handler
\* overlap, for either handler kind, for tasks on one loop and for threads
\* that call run.
C19_NeverOverlap ==
    (dmode # "none" /\ ~tool.concurrent) => Cardinality(ExecutingNow) <= 1

\* C19 amended: with concurrent=False, executions of a blocking handler
\* called through async_run by tasks of one loop never overlap and start
\* in call order; and threads that call run on a coroutine function
\* execute no handler at all.
C19_BlockingOnOneLoop ==
    ~tool.concurrent =>
        /\ (Gathered /\ tool.func = "Blocking") =>
              /\ Cardinality(ExecutingNow) <= 1
              /\ \A j, k \in Calls :
                    (j < k /\ dcall[k] # "pending") => dcall[j] # "pending"
        /\ (dmode = "threads" /\ tool.func = "NonBlocking") => ExecutingNow = {}

C19_Witness ==
    /\ Gathered
    /\ ~tool.concurrent
    /\ tool.func = "Blocking"
    /\ ExecutingNow = {NumCalls}
    /\ dleft[NumCalls] = 0

\* C20: a coroutine handler is never given to a worker thread, with
\* concurrent=True or False: it runs as part of the caller's task on the
\* caller's loop; the calls that run in a worker are those of a blocking
\* handler with concurrent=True.
C20_CoroutineOnCallerLoop ==
    \A i \in Calls :
        /\ dcall[i] \in {"worker", "finished"} =>
              tool.func = "Blocking" /\ tool.concurrent /\ Gathered
        /\ (Gathered /\ tool.func = "NonBlocking") =>
              dcall[i] \in {"pending", "suspended", "woken", "done"}
        /\ (Gathered /\ tool.func = "Blocking" /\ tool.concurrent) =>
              dcall[i] \in {"pending", "worker", "finished", "done"}

C20_Witness ==
    /\ Gathered
    /\ tool.concurrent
    /\ tool.func = "NonBlocking"
    /\ \E i, j \in Calls : dcall[i] = "suspended" /\ dcall[j] = "woken"

\* A size for the worker pool that the dispatch exceeds: a ThreadPoolExecutor
\* made without max_workers takes min(32, cpus + 4) workers, and the case is
\* a dispatch of more blocking calls than that.
WorkerBound == NumCalls - 1

OnWorkers == {i \in Calls : dcall[i] = "worker"}

\* C21: the blocking handlers of a concurrent tool run on one shared worker
\* pool of fixed size: the handlers executing on workers at one time never
\* exceed that size, however many calls were dispatched; the rest wait.
C21_BoundedWorkers ==
    (Gathered /\ tool.concurrent) => Cardinality(OnWorkers) <= WorkerBound

\* A caller of call_tool_async / list_tools_async whose work can no longer
\* run: it awaits a future that is not done, and the loop that would run
\* the coroutine and complete the future has left run_forever.
Stranded(t) ==
    /\ cpc[t] = "await"
    /\ cop[t] \in SessionOps
    /\ cfut[t] # "done"
    /\ loop.state = "stopped"

\* C22: work handed to the loop by call_tool_async / list_tools_async, on
\* an entry whose closed flag the caller saw unset, is run by the loop's
\* thread and its future resolves, whatever a concurrent close() does: no
\* caller is left awaiting a future that nothing can complete.
C22_SubmittedWorkRuns == \A t \in Threads : ~Stranded(t)

\* C23: an error the session raises during call_tool / list_tools reaches
\* the caller as an exception through the returned future: the task that
\* met it ends with it, without a second request and without a normal
\* result (only a new submission starts the task again), and the awaiting
\* caller gets an error exactly when its task ended with one.
C23_Step ==
    \A k \in Threads :
        /\ (cop[k] \in SessionOps /\ task[k] = "io_fail") =>
               task'[k] \in {"io_fail", "failed"}
        /\ task[k] = "failed" =>
               \/ task'[k] = "failed"
               \/ task'[k] = "new" /\ Running("start")
        /\ (cpc[k] = "await" /\ cpc'[k] = "idle") =>
               (cres'[k] = "error" <=> task[k] = "failed")

C23_ErrorDelivered == [][C23_Step]_vars

C23_Witness ==
    \E t \in Threads :
        /\ cpc[t] = "idle"
        /\ cres[t] = "error"
        /\ task[t] = "failed"
        /\ pool.holder = NoTask

\* C24: a tool made by tools_from_mcp_url that is invoked after its
\* endpoint's entry was closed gets a fresh entry and its call proceeds:
\* once close_mcp_url has been called on the entry the tools were loaded
\* with, no invocation ends with "MCP connection is closed" and none is
\* left without an answer.
C24_ClosedEntryRecreated ==
    (toolPool # NoEntry /\ urlCloses[toolPool] > 0) =>
        toolRes \in {"none", "result"}

\* C25: the registry is keyed by url and header set: what _get_pool hands
\* to a caller was opened with the headers that caller passed, so one url
\* asked for with two header sets has two entries.
C25_KeyedByUrlAndHeaders ==
    \A t \in Threads :
        tpc[t] = "gp_return" => entry[tpool[t]].headers = thdr[t]

\* A thread inside the close() that close_mcp_url called for it (the
\* close() a failed constructor calls runs under the registry lock).
ClosingByUrl(t) ==
    tpc[t] \in {"cl_check", "cl_lock", "cl_wait"} /\ regLock # t

\* C26: close_mcp_url takes the entry out of the map before it closes it:
\* no entry whose close() was entered or whose shutdown began through
\* close_mcp_url is still in the map; what a concurrent _get_pool returns
\* is an entry still registered, not yet handed to close, or a fresh one;
\* and when close_mcp_url returns, the url is absent unless a creator has
\* put a newer entry there.
C26_Removed ==
    /\ \A t \in Threads :
          ClosingByUrl(t) => \A u \in Urls : registry[u] # tpool[t]
    /\ \A e \in Entries :
          (urlCloses[e] > 0 /\ entry[e].shutdown # "none") =>
              \A u \in Urls : registry[u] # e
    /\ \A t \in Threads :
          tpc[t] = "gp_return" =>
              (urlCloses[tpool[t]] = 0 /\ registry[turl[t]] = tpool[t])

C26_Step ==
    /\ \A t \in Threads :
          (ClosingByUrl(t) /\ tpc'[t] = "idle") =>
              \/ registry'[turl[t]] = NoEntry
              \/ registry'[turl[t]] > tpool[t]
    /\ \A t \in Threads, u \in Urls :
          CloseUrl(t, u) => registry'[u] = NoEntry

C26_RemoveThenClose == []C26_Removed /\ [][C26_Step]_vars

C26_Witness ==
    \E t \in Threads :
        /\ ClosingByUrl(t)
        /\ entry[tpool[t]].shutdown = "ran"
        /\ registry[turl[t]] # NoEntry
        /\ registry[turl[t]] # tpool[t]
        /\ \E x \in Threads : got[x] = registry[turl[t]]

\* A thread that close_all_mcp_urls has left for good inside the close() of
\* one entry (its shutdown ran, the loop has stopped and the thread still
\* waits) with urls of its snapshot not yet closed.
CloseAllStuck(t) ==
    /\ tsnap[t].active
    /\ tsnap[t].urls # <<>>
    /\ tpc[t] = "cl_wait"
    /\ entry[tpool[t]].loop = "stopped"

InGetPool(t) == tpc[t] \in {"gp_lookup", "gp_construct", "gp_insert", "gp_return"}

C28_Held == \A t \in Threads : InGetPool(t) => regLock = t

C28_Step ==
    \A t, x \in Threads :
        (tpc[t] = "gp_construct" /\ x # t /\ tpc[x] = "idle") =>
            /\ tpc'[x] = "idle"
            /\ got'[x] = got[x]
            /\ registry' = registry

MergeAndSnapshotHold ==
    /\ \A l \in Loads : hload[l].loaded => hload[l].hidden = hload[l].given
    /\ hlast.load \in Loads =>
          LET H == hload[hlast.load].given
              K == hlast.args
          IN  /\ KeysIn(hlast.sent) = KeysIn(H) \cup KeysIn(K)
              /\ \A k \in KeysIn(K) : hlast.sent[k] = K[k]
              /\ \A k \in KeysIn(H) \ KeysIn(K) : hlast.sent[k] = H[k]

\* C29: for tools loaded with hidden_context=H, what an invocation with
\* arguments K sends holds every key of H and of K, with K's value where
\* both hold a key; no key of H is among the tool's visible parameters;
\* and the H used is the one given at load time, independent of any other
\* load.
C29_HiddenContext ==
    /\ MergeAndSnapshotHold
    /\ \A l \in Loads :
          hload[l].loaded => KeysIn(hload[l].hidden) \cap hload[l].params = {}

\* C30: Toolkit.run_tool and Toolkit.async_run_tool called with a name that
\* is not registered (never added, removed, or cleared away) raise
\* ValueError, invoke no handler and leave the registry as it was.
C30_Step ==
    \A n \in ToolNames, op \in KitRunOps :
        (KitRunTool(n, op) /\ n \notin Registered(kit)) =>
            /\ kitRes' = [op |-> op, name |-> n, outcome |-> "ValueError"]
            /\ kitCalls' = kitCalls
            /\ kit' = kit

C30_UnregisteredRaises == [][C30_Step]_vars

C30_Witness ==
    /\ kitRes.op = "async_run_tool"
    /\ kitRes.outcome = "ValueError"
    /\ kitRes.name \notin Registered(kit)
    /\ kitCalls[kitRes.name] > 0
    /\ kit # <<>>

\* C31: over any sequence of Toolkit add, add_tools, remove and clear the
\* registered names are pairwise distinct, so len(toolkit) is the number of
\* names added and not since removed: add of a registered name raises
\* ValueError and add of what is no ToolCall raises TypeError, both leaving
\* the rows as they were; any other add appends one row of that name;
\* remove returns True exactly when the name was registered and takes just
\* that name's row away, and False, changing nothing, otherwise.
C31_Distinct == Len(kit) = Cardinality(Registered(kit))

C31_Step ==
    /\ \A x \in KitObjects :
          KitAdd(x) =>
              /\ kitRes'.outcome =
                    IF x \notin ToolNames THEN "TypeError"
                    ELSE IF x \in Registered(kit) THEN "ValueError"
                    ELSE "added"
              /\ kitRes'.outcome # "added" => kit' = kit
              /\ kitRes'.outcome = "added" =>
                    /\ Len(kit') = Len(kit) + 1
                    /\ Registered(kit') = Registered(kit) \cup {x}
    /\ \A n \in ToolNames :
          KitRemove(n) =>
              /\ kitRes'.outcome = "True" <=> n \in Registered(kit)
              /\ kitRes'.outcome = "False" <=> n \notin Registered(kit)
              /\ n \notin Registered(kit) => kit' = kit
              /\ n \in Registered(kit) =>
                    /\ Len(kit') = Len(kit) - 1
                    /\ Registered(kit') = Registered(kit) \ {n}
    /\ KitClear => kit' = <<>>

C31_NamesDistinct == []C31_Distinct /\ [][C31_Step]_vars

C31_Witness ==
    /\ kitRes = [op |-> "add", name |-> "t1", outcome |-> "ValueError"]
    /\ kit = <<"t2", "t1">>
    /\ kitCalls["t1"] > 0

\* C32: when several threads each add their own uniquely named tool to one
\* shared Toolkit, run it and remove it, then under every interleaving the
\* Toolkit is empty once all threads have finished, and at no time does it
\* hold two rows with the same name.
C32_AllDone == \A t \in Racers : rpc[t] = "done"

C32_EmptyAfterRace ==
    /\ Len(kit) = Cardinality(Registered(kit))
    /\ C32_AllDone => kit = <<>>

\* The part of C32 that holds: never two rows with the same name.
C32_NeverTwoRows == Len(kit) = Cardinality(Registered(kit))

\* C33: a remote call is atomic with respect to close: while a call holds
\* the ordering lock with its request to the session started and not yet
\* completed, the session and transport have not been exited and the loop
\* has not been stopped.
C33_CallAtomicToClose ==
    \A k \in InFlight :
       pool.holder = k =>
          /\ pool.sess_ctx = "entered"
          /\ ~loop.stopping
          /\ loop.state = "running"

\* C34: every operation on the entry's session and transport (open,
\* handshake, call_tool, list_tools, exit) and every start and stop of its
\* loop is a step of the entry's background thread; a step of any other
\* thread leaves the session, the tasks and the loop's run state as they
\* are and at most hands the loop one callback through the thread-safe
\* bridge.
C34_SessionTouched ==
    \/ pool'.sess_ctx # pool.sess_ctx
    \/ pool'.holder # pool.holder
    \/ pool'.waiters # pool.waiters
    \/ pool'.lock # pool.lock
    \/ task' # task
    \/ exits' # exits
    \/ loop'.state # loop.state
    \/ loop'.stopping # loop.stopping
    \/ loop'.todo # loop.todo

C34_Step ==
    /\ C34_SessionTouched => LoopThreadStep
    /\ ~LoopThreadStep =>
          \/ loop' = loop
          \/ \E t \in Threads :
                /\ loop' = [loop EXCEPT !.ready = Append(@, Handle("start", t))]
                /\ cfut[t] # "pending" /\ cfut'[t] = "pending"

C34_OnBackgroundThread == [][C34_Step]_vars

C34_Witness ==
    /\ exits > 0
    /\ loop.state = "stopped"
    /\ pool.sess_ctx = "exited"
    /\ \E t \in Threads : cres[t] = "result"

\* C35: retry state is private to a call: of several concurrent retrying
\* async_run calls of one tool on one loop each has its own attempt counter
\* and start time; the k-th delay of a call (k from 0) is
\* min(0.1 * 2^k, max_backoff) counting only that call's own failures, and
\* a step of another call changes neither its delays nor its attempts.
C35_OwnCount(c) ==
    /\ Len(gdelays[c]) = gattempt[c] + (IF gpc[c] = "sleeping" THEN 1 ELSE 0)
    /\ \A k \in 0..(Len(gdelays[c]) - 1) :
          gdelays[c][k + 1] =
             IF BaseDelay * (2 ^ k) <= gtool.max_backoff
             THEN BaseDelay * (2 ^ k) ELSE gtool.max_backoff
    /\ ginv[c] = CASE gpc[c] = "pending" -> 0
                   [] gpc[c] = "ready" -> gattempt[c]
                   [] OTHER -> gattempt[c] + 1
    /\ gstart[c] <= gnow

C35_Step ==
    \A c, d \in Retriers :
       (c # d /\ (GatherStart(d) \/ GatherAttempt(d) \/ GatherWake(d))) =>
          /\ gattempt'[c] = gattempt[c]
          /\ gstart'[c] = gstart[c]
          /\ gdelays'[c] = gdelays[c]
          /\ gwake'[c] = gwake[c]
          /\ ginv'[c] = ginv[c]
          /\ gpc'[c] = gpc[c]

C35_RetryStatePrivate ==
    /\ [](\A c \in Retriers : C35_OwnCount(c))
    /\ [][C35_Step]_vars

C35_Witness ==
    /\ gpc[1] = "returned" /\ gattempt[1] = 2
    /\ gpc[2] = "raised" /\ gattempt[2] > gattempt[1]
    /\ gstart[2] > gstart[1]
    /\ gstart[2] < gwake[1]

\* C36: a backoff sleep suspends only the retrying call: while one call is
\* in its sleep, every other call on the loop can take its next step, be it
\* its start, a run of the handler (to its return or its raise) or its own
\* wake-up.
C36_Asleep(c) == gpc[c] = "sleeping" /\ gnow < gwake[c]

C36_SleepSuspendsOnlyCaller ==
    \A c, d \in Retriers :
       (c # d /\ C36_Asleep(c)) =>
          /\ gpc[d] = "pending" => ENABLED GatherStart(d)
          /\ gpc[d] = "ready" => ENABLED GatherAttempt(d)
          /\ (gpc[d] = "sleeping" /\ gnow >= gwake[d]) => ENABLED GatherWake(d)

C36_Witness ==
    /\ C36_Asleep(1)
    /\ gpc[2] = "returned"
    /\ gstart[2] > gwake[1] - gdelays[1][Len(gdelays[1])]
    /\ ginv[2] = 1

\* C37: the retry loop does not test the budget again after a backoff
\* sleep: the sleep is followed by the next attempt even when elapsed >=
\* max_timeout by then; such an attempt, if it succeeds, returns its result
\* normally, and only its failure ends the call.
C37_Late == Retrying /\ now - start_time >= tool.max_timeout

C37_Step ==
    /\ Sleep => (callPc' = "attempt" /\ outcome' = outcome)
    /\ (Attempt /\ C37_Late) =>
          /\ callPc' # "sleeping"
          /\ failures' = failures =>
                (callPc' = "returned" /\ outcome' = Return(lastRet'))
          /\ failures' # failures =>
                (callPc' = "raised" /\ outcome' = Raise(lastErr'))

C37_NoRecheckAfterSleep == [][C37_Step]_vars

C37_Witness ==
    /\ Retrying /\ callPc = "returned"
    /\ tool.max_timeout > 0
    /\ failures > 0
    /\ now - start_time - MaxLatency >= tool.max_timeout
    /\ outcome = Return("ok")

\* C38: a remote call that fails or is cancelled releases the ordering
\* lock: the lock is held only by a call whose request has not ended, the
\* step that ends a failed or cancelled request frees the lock and wakes
\* the first call queued for it, and a call that has ended, however it
\* ended, does not hold the lock.
C38_Unended == {"io", "io_ok", "io_fail", "io_cancel"}

C38_HeldOnlyInFlight ==
    /\ pool.holder # NoTask =>
          (cop[pool.holder] \in SessionOps /\ task[pool.holder] \in C38_Unended)
    /\ \A k \in Threads : task[k] \in {"done", "failed"} => pool.holder # k

C38_Step ==
    \A k \in Threads :
       (/\ cop[k] \in SessionOps
        /\ task[k] \in {"io_fail", "io_cancel"}
        /\ task'[k] # task[k]) =>
          /\ task'[k] = "failed"
          /\ pool.holder = k
          /\ pool'.holder = NoTask
          /\ pool.waiters # <<>> => task'[Head(pool.waiters)] = "woken"

C38_FailureReleasesLock == []C38_HeldOnlyInFlight /\ [][C38_Step]_vars

C38_Witness ==
    /\ cres[1] = "error"
    /\ task[2] = "done" /\ cop[2] \in SessionOps
    /\ cfut[2] = "done"
    /\ pool.holder = NoTask
    /\ ~loop.stopping

\* C39: for a blocking handler, with the same outcomes attempt by attempt
\* and the same clock, run and async_run of a retrying tool make the same
\* number of handler invocations, sleep the same sequence of backoffs and
\* end the same way: the same result, or the same exception at exhaustion.
C39_BothRan == \A m \in RetryModes : eqOut[m].ran

C40_Raising(t) == tsnap[t].active /\ CloseRaises(t)

C40_Step ==
    \A t \in Threads :
       /\ C40_Raising(t) =>
             /\ tpc'[t] = "raised"
             /\ registry[turl[t]] # tpool[t]
             /\ registry' = registry
             /\ urlCloses' = urlCloses
             /\ \A e \in Entries : e # tpool[t] => entry'[e] = entry[e]
       /\ (tsnap[t].active /\ tpc[t] = "raised") =>
             /\ ~CloseAllStep(t)
             /\ ~CloseAllReturn(t)
             /\ tpc'[t] # "raised" =>
                   /\ tpc'[t] = "idle"
                   /\ tsnap'[t] = NoSnapshot
                   /\ registry' = registry
                   /\ entry' = entry
                   /\ urlCloses' = urlCloses

C40_StopsAtFirstRaise == [][C40_Step]_vars

C40_Witness ==
    \E t \in Threads :
       /\ tpc[t] = "raised"
       /\ tsnap[t].active
       /\ turl[t] = "u1"
       /\ registry["u1"] = NoEntry
       /\ tsnap[t].urls = <<"u2">>
       /\ registry["u2"] # NoEntry
       /\ urlCloses[registry["u2"]] = 0
       /\ ~entry[registry["u2"]].closed
       /\ entry[registry["u2"]].loop = "running"
       /\ entry[registry["u2"]].shutdown = "none"

====
